---- MODULE Spec2Model ----
(***************************************************************************)
(* A model of the sparse voxel octree of svo-rs: the builder               *)
(* (sparse_voxel_octree_builder.rs), the octree queries                    *)
(* (sparse_voxel_octree.rs), the links (sparse_voxel_octree_link.rs), the  *)
(* line clipping (cohen_sutherland.rs), the compound leaf                  *)
(* (compound_node.rs) and the lookup tables (consts.rs).                   *)
(*                                                                         *)
(* Conventions.  Option<T> is a sequence of length 0 (None) or 1 (Some).   *)
(* Vectors are triples.  Vec<T> is a sequence; the code's indices are      *)
(* 0-based and are kept 0-based in links, At(s, i) reads s[i].  A u64      *)
(* bit set is the set of the positions of its 1 bits.  An f32 is an exact  *)
(* multiple of 1/4, stored as the number of quarters.                      *)
(***************************************************************************)
EXTENDS Integers, Sequences, FiniteSets, TLC

VARIABLES voxel_size, meshes, min, max, phase, origin, layers, leafs,
          op, point, link, result, hops,
          sight_from, sight_to, sight, other_link, face_position, distance

vars == <<voxel_size, meshes, min, max, phase, origin, layers, leafs,
          op, point, link, result, hops,
          sight_from, sight_to, sight, other_link, face_position, distance>>

(* the arguments and the answers of the queries on points and on pairs of  *)
(* links                                                                   *)
geometry == <<sight_from, sight_to, sight, other_link, face_position, distance>>

-----------------------------------------------------------------------------
(* Option, Vec and vector helpers *)

None == <<>>

Some(x) == <<x>>

IsSome(o) == Len(o) = 1

IsNone(o) == Len(o) = 0

Unwrap(o) == o[1]

At(s, i) == s[i + 1]

Range(s) == {s[i] : i \in 1..Len(s)}

(* the next step reads it, and the range is halved to keep the evaluation   *)
(* the next step reads it, and the range is halved to keep the evaluation         *)
(* shallow                                                                   *)
RECURSIVE FoldRange(_, _, _, _)
FoldRange(Op(_, _), acc, lo, hi) ==
    IF lo > hi THEN acc
    ELSE IF lo = hi THEN Op(acc, lo)
    ELSE LET mid == (lo + hi) \div 2
         IN  CHOOSE r \in {FoldRange(Op, x, mid + 1, hi) :
                             x \in {FoldRange(Op, acc, lo, mid)}} : TRUE

Fold(Op(_, _), acc, lo, hi) == CHOOSE r \in {FoldRange(Op, x, lo, hi) : x \in {acc}} : TRUE

(* n applications of Op *)
Iterate(Op(_), s, n) == Fold(LAMBDA acc, i : Op(acc), s, 1, n)

Flatten(ss) == Fold(LAMBDA acc, i : acc \o ss[i], <<>>, 1, Len(ss))

Insert(s, i, x) == SubSeq(s, 1, i) \o <<x>> \o SubSeq(s, i + 1, Len(s))

ZERO == <<0, 0, 0>>

VAdd(a, b) == <<a[1] + b[1], a[2] + b[2], a[3] + b[3]>>

VSub(a, b) == <<a[1] - b[1], a[2] - b[2], a[3] - b[3]>>

VScale(a, k) == <<a[1] * k, a[2] * k, a[3] * k>>

VDiv(a, k) == <<a[1] \div k, a[2] \div k, a[3] \div k>>

Min2(a, b) == IF a < b THEN a ELSE b

Max2(a, b) == IF a > b THEN a ELSE b

VMin(a, b) == <<Min2(a[1], b[1]), Min2(a[2], b[2]), Min2(a[3], b[3])>>

VMax(a, b) == <<Max2(a[1], b[1]), Max2(a[2], b[2]), Max2(a[3], b[3])>>

max_element(a) == Max2(a[1], Max2(a[2], a[3]))

I32_MAX == 2147483647

I32_MIN == (-2147483647) - 1

IVec3_MAX == <<I32_MAX, I32_MAX, I32_MAX>>

IVec3_MIN == <<I32_MIN, I32_MIN, I32_MIN>>

(* f32 -> i32 casts and roundings of a quotient n/d of quarters, d > 0 *)
Trunc(n, d) == IF n >= 0 THEN n \div d ELSE -((-n) \div d)

Floor(n, d) == n \div d

Ceil(n, d) == -((-n) \div d)

-----------------------------------------------------------------------------
(* consts.rs *)

OFFSETS_IN_MORTON_CODE_ORDER ==
    << <<0, 0, 0>>, <<1, 0, 0>>, <<0, 1, 0>>, <<1, 1, 0>>, <<0, 0, 1>>, <<1, 0, 1>>,
    <<0, 1, 1>>, <<1, 1, 1>> >>

NEIGHBOR_CONNECTIONS ==
    << << <<1, 5, 3, 7>>, <<0, 4, 2, 6>> >>, << <<4, 6, 5, 7>>, <<0, 2, 1, 3>> >>,
    << <<0, 4, 2, 6>>, <<1, 5, 3, 7>> >>, << <<0, 2, 1, 3>>, <<4, 6, 5, 7>> >>,
    << <<2, 6, 3, 7>>, <<0, 4, 1, 5>> >>, << <<0, 4, 1, 5>>, <<2, 6, 3, 7>> >> >>

NEIGHBOR_SUBNODES ==
    << << <<0, 0, 0, 0>>, <<0, 0, 1, 4>>, <<0, 0, 2, 32>>, <<0, 0, 3, 36>>, <<0, 1, 0, 2>>,
    <<0, 1, 1, 6>>, <<0, 1, 2, 34>>, <<0, 1, 3, 38>>, <<0, 2, 0, 16>>, <<0, 2, 1, 20>>,
    <<0, 2, 2, 48>>, <<0, 2, 3, 52>>, <<0, 3, 0, 18>>, <<0, 3, 1, 22>>, <<0, 3, 2, 50>>,
    <<0, 3, 3, 54>> >>, << <<0, 0, 0, 0>>, <<1, 0, 0, 1>>, <<2, 0, 0, 8>>, <<3, 0, 0, 9>>,
    <<0, 1, 0, 2>>, <<1, 1, 0, 3>>, <<2, 1, 0, 10>>, <<3, 1, 0, 11>>, <<0, 2, 0, 16>>,
    <<1, 2, 0, 17>>, <<2, 2, 0, 24>>, <<3, 2, 0, 25>>, <<0, 3, 0, 18>>, <<1, 3, 0, 19>>,
    <<2, 3, 0, 26>>, <<3, 3, 0, 27>> >>, << <<3, 0, 0, 9>>, <<3, 0, 1, 13>>,
    <<3, 0, 2, 41>>, <<3, 0, 3, 45>>, <<3, 1, 0, 11>>, <<3, 1, 1, 15>>, <<3, 1, 2, 43>>,
    <<3, 1, 3, 47>>, <<3, 2, 0, 25>>, <<3, 2, 1, 29>>, <<3, 2, 2, 57>>, <<3, 2, 3, 61>>,
    <<3, 3, 0, 27>>, <<3, 3, 1, 31>>, <<3, 3, 2, 59>>, <<3, 3, 3, 63>> >>,
    << <<0, 0, 3, 36>>, <<1, 0, 3, 37>>, <<2, 0, 3, 44>>, <<3, 0, 3, 45>>,
    <<0, 1, 3, 38>>, <<1, 1, 3, 39>>, <<2, 1, 3, 46>>, <<3, 1, 3, 47>>, <<0, 2, 3, 52>>,
    <<1, 2, 3, 53>>, <<2, 2, 3, 60>>, <<3, 2, 3, 61>>, <<0, 3, 3, 54>>, <<1, 3, 3, 55>>,
    <<2, 3, 3, 62>>, <<3, 3, 3, 63>> >>, << <<0, 0, 0, 0>>, <<1, 0, 0, 1>>,
    <<2, 0, 0, 8>>, <<3, 0, 0, 9>>, <<0, 0, 1, 4>>, <<1, 0, 1, 5>>, <<2, 0, 1, 12>>,
    <<3, 0, 1, 13>>, <<0, 0, 2, 32>>, <<1, 0, 2, 33>>, <<2, 0, 2, 40>>, <<3, 0, 2, 41>>,
    <<0, 0, 3, 36>>, <<1, 0, 3, 37>>, <<2, 0, 3, 44>>, <<3, 0, 3, 45>> >>,
    << <<0, 3, 0, 18>>, <<1, 3, 0, 19>>, <<2, 3, 0, 26>>, <<3, 3, 0, 27>>,
    <<0, 3, 1, 22>>, <<1, 3, 1, 23>>, <<2, 3, 1, 30>>, <<3, 3, 1, 31>>, <<0, 3, 2, 50>>,
    <<1, 3, 2, 51>>, <<2, 3, 2, 58>>, <<3, 3, 2, 59>>, <<0, 3, 3, 54>>, <<1, 3, 3, 55>>,
    <<2, 3, 3, 62>>, <<3, 3, 3, 63>> >> >>

(* the table with the two faces of its first entry exchanged *)
SIBLING_CONNECTIONS_FACES_EXCHANGED ==
    << <<2, 0, 0, 1>>, <<4, 5, 0, 2>>, <<1, 3, 0, 4>>, <<4, 5, 1, 3>>, <<1, 3, 1, 5>>,
    <<0, 2, 2, 3>>, <<1, 3, 2, 6>>, <<1, 3, 3, 7>>, <<0, 2, 4, 5>>, <<4, 5, 4, 6>>,
    <<4, 5, 5, 7>>, <<0, 2, 6, 7>> >>

SIBLING_CONNECTIONS ==
    << <<0, 2, 0, 1>>, <<4, 5, 0, 2>>, <<1, 3, 0, 4>>, <<4, 5, 1, 3>>, <<1, 3, 1, 5>>,
    <<0, 2, 2, 3>>, <<1, 3, 2, 6>>, <<1, 3, 3, 7>>, <<0, 2, 4, 5>>, <<4, 5, 4, 6>>,
    <<4, 5, 5, 7>>, <<0, 2, 6, 7>> >>

SUBNODE_NEIGHBORS ==
    << <<1, 4, 9, 36, 2, 18>>, <<8, 5, 0, 37, 3, 19>>, <<3, 6, 11, 38, 16, 0>>,
    <<10, 7, 2, 39, 17, 1>>, <<5, 32, 13, 0, 6, 22>>, <<12, 33, 4, 1, 7, 23>>,
    <<7, 34, 15, 2, 20, 4>>, <<14, 35, 6, 3, 21, 5>>, <<9, 12, 1, 44, 10, 26>>,
    <<0, 13, 8, 45, 11, 27>>, <<11, 14, 3, 46, 24, 8>>, <<2, 15, 10, 47, 25, 9>>,
    <<13, 40, 5, 8, 14, 30>>, <<4, 41, 12, 9, 15, 31>>, <<15, 42, 7, 10, 28, 12>>,
    <<6, 43, 14, 11, 29, 13>>, <<17, 20, 25, 52, 18, 2>>, <<24, 21, 16, 53, 19, 3>>,
    <<19, 22, 27, 54, 0, 16>>, <<26, 23, 18, 55, 1, 17>>, <<21, 48, 29, 16, 22, 6>>,
    <<28, 49, 20, 17, 23, 7>>, <<23, 50, 31, 18, 4, 20>>, <<30, 51, 22, 19, 5, 21>>,
    <<25, 28, 17, 60, 26, 10>>, <<16, 29, 24, 61, 27, 11>>, <<27, 30, 19, 62, 8, 24>>,
    <<18, 31, 26, 63, 9, 25>>, <<29, 56, 21, 24, 30, 14>>, <<20, 57, 28, 25, 31, 15>>,
    <<31, 58, 23, 26, 12, 28>>, <<22, 59, 30, 27, 13, 29>>, <<33, 36, 41, 4, 34, 50>>,
    <<40, 37, 32, 5, 35, 51>>, <<35, 38, 43, 6, 48, 32>>, <<42, 39, 34, 7, 49, 33>>,
    <<37, 0, 45, 32, 38, 54>>, <<44, 1, 36, 33, 39, 55>>, <<39, 2, 47, 34, 52, 36>>,
    <<46, 3, 38, 35, 53, 37>>, <<41, 44, 33, 12, 42, 58>>, <<32, 45, 40, 13, 43, 59>>,
    <<43, 46, 35, 14, 56, 40>>, <<34, 47, 42, 15, 57, 41>>, <<45, 8, 37, 40, 46, 62>>,
    <<36, 9, 44, 41, 47, 63>>, <<47, 10, 39, 42, 60, 44>>, <<38, 11, 46, 43, 61, 45>>,
    <<49, 52, 57, 20, 50, 34>>, <<56, 53, 48, 21, 51, 35>>, <<51, 54, 59, 22, 32, 48>>,
    <<58, 55, 50, 23, 33, 49>>, <<53, 16, 61, 48, 54, 38>>, <<60, 17, 52, 49, 55, 39>>,
    <<55, 18, 63, 50, 36, 52>>, <<62, 19, 54, 51, 37, 53>>, <<57, 60, 49, 28, 58, 42>>,
    <<48, 61, 56, 29, 59, 43>>, <<59, 62, 51, 30, 40, 56>>, <<50, 63, 58, 31, 41, 57>>,
    <<61, 24, 53, 56, 62, 46>>, <<52, 25, 60, 57, 63, 47>>, <<63, 26, 55, 58, 44, 60>>,
    <<54, 27, 62, 59, 45, 61>> >>

NEIGHBOR_POSITION_OFFSETS ==
    << <<1, 0, 0>>, <<0, 0, 1>>, <<-1, 0, 0>>, <<0, 0, -1>>, <<0, 1, 0>>, <<0, -1, 0>> >>

SUBNODE_POSITIONS ==
    << <<0, 0, 0>>, <<1, 0, 0>>, <<0, 1, 0>>, <<1, 1, 0>>, <<0, 0, 1>>, <<1, 0, 1>>,
    <<0, 1, 1>>, <<1, 1, 1>>, <<2, 0, 0>>, <<3, 0, 0>>, <<2, 1, 0>>, <<3, 1, 0>>,
    <<2, 0, 1>>, <<3, 0, 1>>, <<2, 1, 1>>, <<3, 1, 1>>, <<0, 2, 0>>, <<1, 2, 0>>,
    <<0, 3, 0>>, <<1, 3, 0>>, <<0, 2, 1>>, <<1, 2, 1>>, <<0, 3, 1>>, <<1, 3, 1>>,
    <<2, 2, 0>>, <<3, 2, 0>>, <<2, 3, 0>>, <<3, 3, 0>>, <<2, 2, 1>>, <<3, 2, 1>>,
    <<2, 3, 1>>, <<3, 3, 1>>, <<0, 0, 2>>, <<1, 0, 2>>, <<0, 1, 2>>, <<1, 1, 2>>,
    <<0, 0, 3>>, <<1, 0, 3>>, <<0, 1, 3>>, <<1, 1, 3>>, <<2, 0, 2>>, <<3, 0, 2>>,
    <<2, 1, 2>>, <<3, 1, 2>>, <<2, 0, 3>>, <<3, 0, 3>>, <<2, 1, 3>>, <<3, 1, 3>>,
    <<0, 2, 2>>, <<1, 2, 2>>, <<0, 3, 2>>, <<1, 3, 2>>, <<0, 2, 3>>, <<1, 2, 3>>,
    <<0, 3, 3>>, <<1, 3, 3>>, <<2, 2, 2>>, <<3, 2, 2>>, <<2, 3, 2>>, <<3, 3, 2>>,
    <<2, 2, 3>>, <<3, 2, 3>>, <<2, 3, 3>>, <<3, 3, 3>> >>

-----------------------------------------------------------------------------
(* morton_code.rs: bit interleaving, x lowest; the narrowed 8-bit variant  *)
(* fails when a coordinate leaves 0..3                                     *)

RECURSIVE encode_xyz(_, _, _)
encode_xyz(x, y, z) ==
    IF x = 0 /\ y = 0 /\ z = 0 THEN 0
    ELSE (x % 2) + 2 * (y % 2) + 4 * (z % 2)
         + 8 * encode_xyz(x \div 2, y \div 2, z \div 2)

encode(p) == encode_xyz(p[1], p[2], p[3])

as_u8(code) == IF code <= 63 THEN Some(code) ELSE None

RECURSIVE decode_axis(_, _)
decode_axis(code, axis) ==
    IF code = 0 THEN 0
    ELSE ((code \div axis) % 2) + 2 * decode_axis(code \div 8, axis)

decode(code) == <<decode_axis(code, 1), decode_axis(code, 2), decode_axis(code, 4)>>

-----------------------------------------------------------------------------
(* compound_node.rs *)

(* a binary literal, most significant digit first, as the set of its 1 bits *)
Bits(digits) == {i \in 0..(Len(digits) - 1) : digits[Len(digits) - i] = 1}

TOP_FACE_POSITIONS ==
    Bits(<<1,1, 0,0,1,1, 0,0,1,1, 0,0,1,1, 0,0,0,0, 0,0,0,0, 0,0,0,0, 0,0,0,0,
           0,0,1,1, 0,0,1,1, 0,0,1,1, 0,0,1,1>>)

BOTTOM_FACE_POSITIONS ==
    Bits(<<1,1,0,0, 1,1,0,0, 1,1,0,0, 1,1,0,0, 0,0,0,0, 0,0,0,0, 0,0,0,0, 0,0,0,0,
           1,1,0,0, 1,1,0,0, 1,1,0,0, 1,1,0,0, 0,0,0,0, 0,0,0,0, 0,0,0,0, 0,0,0,0>>)

LEFT_FACE_POSITIONS ==
    Bits(<<1,0,1, 0,1,0,1, 0,0,0,0, 0,0,0,0, 0,1,0,1, 0,1,0,1, 0,0,0,0, 0,0,0,0,
           0,1,0,1, 0,1,0,1, 0,0,0,0, 0,0,0,0, 0,1,0,1, 0,1,0,1>>)

RIGHT_FACE_POSITIONS ==
    Bits(<<1,0,1,0, 1,0,1,0, 0,0,0,0, 0,0,0,0, 1,0,1,0, 1,0,1,0, 0,0,0,0, 0,0,0,0,
           1,0,1,0, 1,0,1,0, 0,0,0,0, 0,0,0,0, 1,0,1,0, 1,0,1,0, 0,0,0,0, 0,0,0,0>>)

FRONT_FACE_POSITIONS ==
    Bits(<<1,1,1,1, 0,0,0,0, 1,1,1,1, 0,0,0,0, 1,1,1,1, 0,0,0,0, 1,1,1,1>>)

BACK_FACE_POSITIONS ==
    Bits(<<1,1,1,1, 0,0,0,0, 1,1,1,1, 0,0,0,0, 1,1,1,1, 0,0,0,0, 1,1,1,1, 0,0,0,0,
           0,0,0,0, 0,0,0,0, 0,0,0,0, 0,0,0,0, 0,0,0,0, 0,0,0,0, 0,0,0,0, 0,0,0,0>>)

(* the masks with the top one before the bottom one *)
FACE_POSITIONS_TOP_FIRST ==
    <<RIGHT_FACE_POSITIONS, BACK_FACE_POSITIONS, LEFT_FACE_POSITIONS,
      FRONT_FACE_POSITIONS, TOP_FACE_POSITIONS, BOTTOM_FACE_POSITIONS>>

FACE_POSITIONS ==
    <<RIGHT_FACE_POSITIONS, BACK_FACE_POSITIONS, LEFT_FACE_POSITIONS,
      FRONT_FACE_POSITIONS, BOTTOM_FACE_POSITIONS, TOP_FACE_POSITIONS>>

CompoundNode_new == {}

is_face(node_index, face_index) == node_index \in At(FACE_POSITIONS, face_index)

is_empty(leaf) == leaf = {}

is_full(leaf) == leaf = 0..63

set(leaf, x, y, z, value) ==
    IF value THEN leaf \cup {encode_xyz(x, y, z)} ELSE leaf \ {encode_xyz(x, y, z)}

get_by_index(leaf, index) == index \in leaf

-----------------------------------------------------------------------------
(* sparse_voxel_octree_link.rs, sparse_voxel_octree_node.rs *)

SparseVoxelOctreeLink(layer_index, node_index, subnode_index) ==
    [layer_index |-> layer_index, node_index |-> node_index,
     subnode_index |-> subnode_index]

NoNeighbors == <<None, None, None, None, None, None>>

node(position, size) ==
    [position |-> position, parent |-> None, first_child |-> None,
     is_leaf |-> FALSE, size |-> size, neighbors |-> NoNeighbors]

(* a node of layer 0 that is not marked as a leaf when it is made *)
leaf_unmarked(position) ==
    [position |-> position, parent |-> None, first_child |-> None,
     is_leaf |-> FALSE, size |-> 4, neighbors |-> NoNeighbors]

leaf(position) ==
    [position |-> position, parent |-> None, first_child |-> None,
     is_leaf |-> TRUE, size |-> 4, neighbors |-> NoNeighbors]

NodeAt(ls, l) == At(At(ls, l.layer_index), l.node_index)

-----------------------------------------------------------------------------
(* voxelized_mesh.rs *)

VoxelizedMesh(vs, size, corner) ==
    [voxels |-> vs, voxel_size |-> size, left_top_corner |-> corner]

voxels(mesh) == [i \in 1..Len(mesh.voxels) |-> VAdd(mesh.voxels[i], mesh.left_top_corner)]

-----------------------------------------------------------------------------
(* sparse_voxel_octree_builder.rs *)

is_power_of_two(n) == \E k \in 0..30 : n = 2 ^ k

RECURSIVE next_power_of_two_from(_, _)
next_power_of_two_from(n, p) == IF p >= n THEN p ELSE next_power_of_two_from(n, 2 * p)

next_power_of_two(n) == next_power_of_two_from(n, 1)

get_min_max(vs) ==
    IF Len(vs) = 0 THEN <<ZERO, ZERO>>
    ELSE Fold(LAMBDA mm, i : <<VMin(mm[1], vs[i]), VMax(mm[2], vs[i])>>,
              <<IVec3_MAX, IVec3_MIN>>, 1, Len(vs))

(* an origin fixed at the zero of the voxel grid *)
get_origin_and_size_at_zero(mn, mx) ==
    IF mn = mx THEN <<ZERO, 1>>
    ELSE LET size == max_element(VSub(mx, mn))
         IN  <<ZERO, IF is_power_of_two(size) THEN size ELSE next_power_of_two(size)>>

get_origin_and_size(mn, mx) ==
    IF mn = mx THEN <<mn, 1>>
    ELSE LET size == max_element(VSub(mx, mn))
         IN  <<mn, IF is_power_of_two(size) THEN size ELSE next_power_of_two(size)>>

(* the keys in the order of their coordinates: by x, then y, then z *)
sort_by_coordinates(S) ==
    LET code == [p \in S |-> (p[1] * 1024 + p[2]) * 1024 + p[3]]
    IN  [k \in 1..Cardinality(S) |->
            CHOOSE p \in S : Cardinality({q \in S : code[q] < code[p]}) = k - 1]

(* the keys of a HashMap, in the order of Ord for SparseVoxelOctreeNode: by *)
(* the Morton code of the position                                         *)
sort_by_morton(S) ==
    LET code == [p \in S |-> encode(p)]
    IN  [k \in 1..Cardinality(S) |->
            CHOOSE p \in S : Cardinality({q \in S : code[q] < code[p]}) = k - 1]

leaf_coords_of(voxel, org) == VScale(VDiv(VSub(voxel, org), 4), 4)

leaf_parent_octet(voxel, org) ==
    LET leaf_parent_coords == VScale(VDiv(VSub(voxel, org), 8), 8)
    IN  {VAdd(leaf_parent_coords, <<x * 4, y * 4, z * 4>>) : x \in 0..1, y \in 0..1, z \in 0..1}

(* the bits of a leaf with x and z exchanged *)
set_voxels_mirrored(vs, coords, org) ==
    Fold(LAMBDA leaf_bits, i :
            LET local_coords == VSub(VSub(vs[i], org), coords)
            IN  IF leaf_coords_of(vs[i], org) = coords
                THEN set(leaf_bits, local_coords[3], local_coords[2], local_coords[1], TRUE)
                ELSE leaf_bits,
         CompoundNode_new, 1, Len(vs))

(* the second loop with the leaf inserted anew for every voxel: the last   *)
(* voxel of a leaf wins                                                    *)
set_voxels_overwriting(vs, coords, org) ==
    Fold(LAMBDA leaf_bits, i :
            LET local_coords == VSub(VSub(vs[i], org), coords)
            IN  IF leaf_coords_of(vs[i], org) = coords
                THEN set(CompoundNode_new, local_coords[1], local_coords[2], local_coords[3], TRUE)
                ELSE leaf_bits,
         CompoundNode_new, 1, Len(vs))

(* the second loop over the voxels, as seen by the leaf at coords *)
set_voxels(vs, coords, org) ==
    Fold(LAMBDA leaf_bits, i :
            LET local_coords == VSub(VSub(vs[i], org), coords)
            IN  IF leaf_coords_of(vs[i], org) = coords
                THEN set(leaf_bits, local_coords[1], local_coords[2], local_coords[3], TRUE)
                ELSE leaf_bits,
         CompoundNode_new, 1, Len(vs))

(* `layer_zero.is_leaf = true` of the second loop, as seen by one node *)
mark_leaf(vs, nd, org) ==
    [nd EXCEPT !.is_leaf = @ \/ \E i \in 1..Len(vs) : leaf_coords_of(vs[i], org) = nd.position]

collect_leafs_and_zero_layer_nodes(vs, org) ==
    LET keys   == UNION {leaf_parent_octet(vs[i], org) : i \in 1..Len(vs)}
        sorted == sort_by_morton(keys)
    IN  <<[i \in 1..Len(sorted) |-> mark_leaf(vs, leaf(sorted[i]), org)],
          [i \in 1..Len(sorted) |-> set_voxels(vs, sorted[i], org)]>>

validate_all_children_present(nodes, node_size) ==
    /\ Len(nodes) % 8 = 0
    /\ \A b \in 0..((Len(nodes) \div 8) - 1) : \A y \in 0..7 :
          VSub(VDiv(At(nodes, 8 * b + y).position, node_size),
               VDiv(At(nodes, 8 * b).position, node_size))
            = At(OFFSETS_IN_MORTON_CODE_ORDER, y)

(* the missing node pushed at the end of the layer instead of inserted at  *)
(* its index                                                               *)
fill_node_at_the_end(layer, node_index, first_position, node_size, offset) ==
    LET node_1_exists ==
            IF Len(layer) > node_index
            THEN VDiv(VSub(At(layer, node_index).position, first_position), node_size) = offset
            ELSE FALSE
    IN  IF ~node_1_exists
        THEN Append(layer, node(VAdd(first_position, VScale(offset, node_size)), node_size))
        ELSE layer

fill_node_if_it_doesnt_exist(layer, node_index, first_position, node_size, offset) ==
    LET node_1_exists ==
            IF Len(layer) > node_index
            THEN LET node_1_pos == At(layer, node_index).position
                 IN  IF \/ first_position[1] > node_1_pos[1]
                        \/ first_position[2] > node_1_pos[2]
                        \/ first_position[3] > node_1_pos[3]
                     THEN FALSE
                     ELSE VDiv(VSub(node_1_pos, first_position), node_size) = offset
            ELSE FALSE
    IN  IF ~node_1_exists
        THEN Insert(layer, node_index, node(VAdd(first_position, VScale(offset, node_size)),
                                            node_size))
        ELSE layer

fill_octet(layer, i, first_position, node_size) ==
    Fold(LAMBDA l, y : fill_node_if_it_doesnt_exist(l, i + y, first_position, node_size,
                                                    At(OFFSETS_IN_MORTON_CODE_ORDER, y)),
         layer, 0, 7)

(* one turn of the loop; s = <<layer, i, left the loop>> *)
fill_empty_children_spots_step(s, next_node_size) ==
    IF s[3] THEN s
    ELSE LET layer == s[1]
             i     == s[2]
             first_position ==
                 IF Len(layer) <= i THEN ZERO
                 ELSE VScale(VScale(VDiv(At(layer, i).position, next_node_size * 2),
                                    next_node_size), 2)
             filled == fill_octet(layer, i, first_position, next_node_size)
         IN  <<filled, i + 8, i + 8 >= Len(filled)>>

(* every turn but the first starts at a node the layer already had *)
fill_empty_children_spots(layer, next_node_size) ==
    Iterate(LAMBDA s : fill_empty_children_spots_step(s, next_node_size),
            <<layer, 0, FALSE>>, Len(layer) + 1)[1]

(* a parent that numbers its octet instead of pointing at the octet's first node *)
parent_of_octet_by_octet_number(last_layer, next_layer_index, i, next_node_size) ==
    [node(At(last_layer, i).position, next_node_size)
        EXCEPT !.first_child = Some(SparseVoxelOctreeLink(next_layer_index - 1, i \div 8, None))]

(* the body of `for i in (0..last_layer.len()).step_by(8)` *)
parent_of_octet(last_layer, next_layer_index, i, next_node_size) ==
    [node(At(last_layer, i).position, next_node_size)
        EXCEPT !.first_child = Some(SparseVoxelOctreeLink(next_layer_index - 1, i, None))]

(* the layer above the last one; the assertion is the caller's to check *)
create_next_layer(ls, current_node_size, size) ==
    LET next_layer_index == Len(ls)
        next_node_size   == current_node_size * 2
        last_layer       == ls[Len(ls)]
        layer == [b \in 1..(Len(last_layer) \div 8) |->
                    parent_of_octet(last_layer, next_layer_index, 8 * (b - 1), next_node_size)]
    IN  <<next_node_size,
          IF next_node_size < size THEN fill_empty_children_spots(layer, next_node_size)
          ELSE layer>>

set_parents(ls, i, y) ==
    LET fc == At(At(ls, i), y).first_child
    IN  IF IsNone(fc) THEN ls
        ELSE [ls EXCEPT ![Unwrap(fc).layer_index + 1] =
                [n \in 1..Len(@) |->
                    IF (n - 1) \in Unwrap(fc).node_index..(Unwrap(fc).node_index + 7)
                    THEN [@[n] EXCEPT !.parent = Some(SparseVoxelOctreeLink(i, y, None))]
                    ELSE @[n]]]

fill_parents(ls) ==
    Fold(LAMBDA ls1, k :
            LET i == Len(ls) - k
            IN  Fold(LAMBDA ls2, y : set_parents(ls2, i, y), ls1, 0, Len(At(ls, i)) - 1),
         ls, 1, Len(ls))

set_neighbor(ls, layer_index, node_index, face, value) ==
    [ls EXCEPT ![layer_index + 1][node_index + 1].neighbors[face + 1] = value]

(* only the first of the two siblings learns of the other *)
interconnect_pair_one_way(ls, first_child, c) ==
    set_neighbor(ls, first_child.layer_index, first_child.node_index + c[3], c[1],
        Some(SparseVoxelOctreeLink(first_child.layer_index,
                                   first_child.node_index + c[4], None)))

interconnect_pair(ls, first_child, c) ==
    LET neighbor_index_1 == c[1]
        neighbor_index_2 == c[2]
        offset_1 == c[3]
        offset_2 == c[4]
        ls1 == set_neighbor(ls, first_child.layer_index,
                   first_child.node_index + offset_1, neighbor_index_1,
                   Some(SparseVoxelOctreeLink(first_child.layer_index,
                                              first_child.node_index + offset_2, None)))
    IN  set_neighbor(ls1, first_child.layer_index,
            first_child.node_index + offset_2, neighbor_index_2,
            Some(SparseVoxelOctreeLink(first_child.layer_index,
                                       first_child.node_index + offset_1, None)))

interconnect_children(ls, first_child) ==
    Fold(LAMBDA acc, k : interconnect_pair(acc, first_child, SIBLING_CONNECTIONS[k]),
         ls, 1, Len(SIBLING_CONNECTIONS))

connect_face_children(ls, own_first_child, from_neighbor_index, targets) ==
    Fold(LAMBDA acc, i :
            set_neighbor(acc, own_first_child.layer_index,
                own_first_child.node_index
                    + At(At(NEIGHBOR_CONNECTIONS, from_neighbor_index)[1], i),
                from_neighbor_index, Some(At(targets, i))),
         ls, 0, 3)

(* the children of the neighbour on the side away from the node *)
face_targets_far_side(ls, neighbor, from_neighbor_index) ==
    LET nfc == NodeAt(ls, neighbor).first_child
    IN  IF IsSome(nfc)
        THEN [i \in 1..4 |->
                SparseVoxelOctreeLink(Unwrap(nfc).layer_index,
                    Unwrap(nfc).node_index
                        + At(NEIGHBOR_CONNECTIONS, from_neighbor_index)[1][i], None)]
        ELSE [i \in 1..4 |-> neighbor]

face_targets(ls, neighbor, from_neighbor_index) ==
    LET nfc == NodeAt(ls, neighbor).first_child
    IN  IF IsSome(nfc)
        THEN [i \in 1..4 |->
                SparseVoxelOctreeLink(Unwrap(nfc).layer_index,
                    Unwrap(nfc).node_index
                        + At(NEIGHBOR_CONNECTIONS, from_neighbor_index)[2][i], None)]
        ELSE [i \in 1..4 |-> neighbor]

interconnect_with_own_neighbors(ls, nd, own_first_child) ==
    Fold(LAMBDA acc, from_neighbor_index :
            LET nb == At(NodeAt(acc, nd).neighbors, from_neighbor_index)
            IN  IF IsSome(nb)
                THEN connect_face_children(acc, own_first_child, from_neighbor_index,
                         face_targets(acc, Unwrap(nb), from_neighbor_index))
                ELSE acc,
         ls, 0, 5)

(* one turn of `while let Some(node) = nodes.pop()`; s = <<layers, nodes>> *)
fill_neighbors_step(s) ==
    LET ls    == s[1]
        nodes == s[2]
    IN  IF Len(nodes) = 0 THEN s
        ELSE LET nd   == nodes[Len(nodes)]
                 rest == SubSeq(nodes, 1, Len(nodes) - 1)
                 fc   == NodeAt(ls, nd).first_child
             IN  IF IsNone(fc) THEN <<ls, rest>>
                 ELSE LET first_child == Unwrap(fc)
                          pushed == rest \o [i \in 1..8 |->
                                        SparseVoxelOctreeLink(first_child.layer_index,
                                            first_child.node_index + (i - 1), None)]
                      IN  <<interconnect_with_own_neighbors(
                                interconnect_children(ls, first_child), nd, first_child),
                            pushed>>

node_count(ls) == Fold(LAMBDA n, i : n + Len(ls[i]), 0, 1, Len(ls))

(* a node is pushed once, by its parent, so the stack empties within *)
(* node_count turns                                                   *)
fill_neighbors(ls) ==
    IF Len(ls) = 0 THEN ls
    ELSE IF Len(ls[1]) = 0 THEN ls
    ELSE Iterate(fill_neighbors_step,
                 <<ls, <<SparseVoxelOctreeLink(Len(ls) - 1, 0, None)>> >>,
                 node_count(ls) + 1)[1]

(* the while loop of build; None when the assertion of create_next_layer fails *)
RECURSIVE build_layers(_, _, _)
build_layers(ls, current_node_size, size) ==
    IF ~(current_node_size < size) THEN Some(ls)
    ELSE IF ~validate_all_children_present(ls[Len(ls)], current_node_size) THEN None
    ELSE LET next == create_next_layer(ls, current_node_size, size)
         IN  build_layers(Append(ls, next[2]), next[1], size)

(* build, from the layers on *)
build_from(os, zero, built, self_voxel_size) ==
    IF IsNone(built) THEN None
    ELSE Some([origin |-> os[1],
               layers |-> fill_neighbors(fill_parents(Unwrap(built))),
               leafs |-> zero[2],
               voxel_size |-> self_voxel_size])

build(ms, self_min, self_max, self_voxel_size) ==
    LET vs == Flatten([i \in 1..Len(ms) |-> voxels(ms[i])])
        mm == get_min_max(vs)
        mn == VMin(self_min, mm[1])
        mx == VMax(self_max, mm[2])
        os == get_origin_and_size(mn, mx)
    IN  CHOOSE r \in UNION {{build_from(os, zero, built, self_voxel_size) :
                                built \in {build_layers(<<zero[1]>>, 4, os[2])}} :
                            zero \in {collect_leafs_and_zero_layer_nodes(vs, os[1])}} : TRUE

-----------------------------------------------------------------------------
(* sparse_voxel_octree.rs *)

(* u32 arithmetic of find_node.  A u32 is held by its 32 bits read as an   *)
(* i32: a u32 of 2^31 or more is the negative number congruent to it       *)
(* modulo 2^32.  Node positions are below 2^31.                            *)

(* `a - b` on u32 leaves the range: a panic with overflow checks, a        *)
(* wrapped difference without                                              *)
u32_sub_overflows(a, b) == \E k \in 1..3 : a[k] >= 0 /\ a[k] < b[k]

(* a / d on u32, d even *)
u32_div(a, d) ==
    IF a >= 0 THEN a \div d ELSE (I32_MAX - (((-a) - 1) \div 2)) \div (d \div 2)

(* the `as u32` cast keeps the 32 bits *)
as_uvec3(v) == v

(* MortonCode::encode(p).as_u8(); a coordinate of 2^31 or more has high    *)
(* bits set, and its code does not fit                                     *)
encode_as_u8(p) ==
    IF \E k \in 1..3 : p[k] < 0 \/ p[k] > 1023 THEN None ELSE as_u8(encode(p))

(* every subnode of the face, the occupied ones too *)
expand_to_neighboring_subnodes_unfiltered(tree, neighbor_index, neighbor) ==
    LET leaf_bits == At(tree.leafs, neighbor.node_index)
        neighboring_nodes == At(NEIGHBOR_SUBNODES, neighbor_index)
    IN  IF is_empty(leaf_bits) THEN <<neighbor>>
        ELSE IF is_full(leaf_bits) THEN <<>>
        ELSE [k \in 1..Len(neighboring_nodes) |->
                SparseVoxelOctreeLink(neighbor.layer_index, neighbor.node_index,
                                      Some(neighboring_nodes[k][4]))]

expand_to_neighboring_subnodes(tree, neighbor_index, neighbor) ==
    LET leaf_bits == At(tree.leafs, neighbor.node_index)
        neighboring_nodes == At(NEIGHBOR_SUBNODES, neighbor_index)
        free == SelectSeq(neighboring_nodes, LAMBDA n : ~get_by_index(leaf_bits, n[4]))
    IN  IF is_empty(leaf_bits) THEN <<neighbor>>
        ELSE IF is_full(leaf_bits) THEN <<>>
        ELSE [k \in 1..Len(free) |->
                SparseVoxelOctreeLink(neighbor.layer_index, neighbor.node_index,
                                      Some(free[k][4]))]

find_neighboring_subnode_for_subnode(tree, neighbor_index, neighbor, subnode) ==
    LET leaf_bits == At(tree.leafs, neighbor.node_index)
        cell == At(At(SUBNODE_NEIGHBORS, subnode), neighbor_index)
    IN  IF is_empty(leaf_bits) THEN Some(neighbor)
        ELSE IF is_full(leaf_bits) THEN None
        ELSE IF ~get_by_index(leaf_bits, cell)
             THEN Some(SparseVoxelOctreeLink(neighbor.layer_index, neighbor.node_index,
                                             Some(cell)))
             ELSE None

(* the four children on the far side of the neighbour *)
expand_children_of_far_side(tree, neighbor_index, first_child, s) ==
    Fold(LAMBDA acc, k :
            LET child == SparseVoxelOctreeLink(first_child.layer_index,
                             first_child.node_index
                                 + At(NEIGHBOR_CONNECTIONS, neighbor_index)[1][k], None)
                child_node == NodeAt(tree.layers, child)
            IN  IF IsSome(child_node.first_child)
                THEN <<Append(acc[1], child), acc[2]>>
                ELSE IF child_node.is_leaf
                THEN <<acc[1],
                       acc[2] \o expand_to_neighboring_subnodes(tree, neighbor_index, child)>>
                ELSE <<acc[1], Append(acc[2], child)>>,
         s, 1, 4)

(* for i in to_nodes.iter().take(4); s = <<open, close>> *)
expand_children_of(tree, neighbor_index, first_child, s) ==
    Fold(LAMBDA acc, k :
            LET child == SparseVoxelOctreeLink(first_child.layer_index,
                             first_child.node_index
                                 + At(NEIGHBOR_CONNECTIONS, neighbor_index)[2][k], None)
                child_node == NodeAt(tree.layers, child)
            IN  IF IsSome(child_node.first_child)
                THEN <<Append(acc[1], child), acc[2]>>
                ELSE IF child_node.is_leaf
                THEN <<acc[1],
                       acc[2] \o expand_to_neighboring_subnodes(tree, neighbor_index, child)>>
                ELSE <<acc[1], Append(acc[2], child)>>,
         s, 1, 4)

(* one turn of `while let Some(neighbor) = open.pop()`; s = <<open, close>> *)
expand_step(tree, neighbor_index, s) ==
    IF Len(s[1]) = 0 THEN s
    ELSE LET open == s[1]
             neighbor == open[Len(open)]
             first_child == Unwrap(NodeAt(tree.layers, neighbor).first_child)
         IN  expand_children_of(tree, neighbor_index, first_child,
                                <<SubSeq(open, 1, Len(open) - 1), s[2]>>)

(* only nodes with children are opened, each once *)
expand_to_neighboring_children(tree, neighbor_index, neighbor) ==
    Iterate(LAMBDA s : expand_step(tree, neighbor_index, s),
            << <<neighbor>>, <<>> >>, node_count(tree.layers))[2]

(* a step inside the leaf that does not look at the occupancy bit *)
successors_of_face_through_occupied(tree, l, i) ==
    LET nd == NodeAt(tree.layers, l)
    IN  IF IsNone(At(nd.neighbors, i)) THEN <<>>
        ELSE
        LET neighbor == Unwrap(At(nd.neighbors, i))
            neighbor_node == NodeAt(tree.layers, neighbor)
        IN  IF IsSome(l.subnode_index)
            THEN LET subnode == Unwrap(l.subnode_index)
                 IN  IF ~is_face(subnode, i)
                     THEN LET neighbor_index == At(At(SUBNODE_NEIGHBORS, subnode), i)
                              leaf_node == At(tree.leafs, l.node_index)
                          IN  IF leaf_node = leaf_node
                              THEN <<SparseVoxelOctreeLink(l.layer_index, l.node_index,
                                                           Some(neighbor_index))>>
                              ELSE <<>>
                     ELSE IF IsSome(neighbor_node.first_child)
                     THEN expand_to_neighboring_children(tree, i, neighbor)
                     ELSE IF neighbor_node.is_leaf
                     THEN find_neighboring_subnode_for_subnode(tree, i, neighbor, subnode)
                     ELSE <<neighbor>>
            ELSE IF IsSome(neighbor_node.first_child)
            THEN expand_to_neighboring_children(tree, i, neighbor)
            ELSE IF neighbor_node.is_leaf
            THEN expand_to_neighboring_subnodes(tree, i, neighbor)
            ELSE <<neighbor>>

(* the body of the loop of successors for face i *)
successors_of_face(tree, l, i) ==
    LET nd == NodeAt(tree.layers, l)
    IN  IF IsNone(At(nd.neighbors, i)) THEN <<>>
        ELSE
        LET neighbor == Unwrap(At(nd.neighbors, i))
            neighbor_node == NodeAt(tree.layers, neighbor)
        IN  IF IsSome(l.subnode_index)
            THEN LET subnode == Unwrap(l.subnode_index)
                 IN  IF ~is_face(subnode, i)
                     THEN LET neighbor_index == At(At(SUBNODE_NEIGHBORS, subnode), i)
                              leaf_node == At(tree.leafs, l.node_index)
                          IN  IF ~get_by_index(leaf_node, neighbor_index)
                              THEN <<SparseVoxelOctreeLink(l.layer_index, l.node_index,
                                                           Some(neighbor_index))>>
                              ELSE <<>>
                     ELSE IF IsSome(neighbor_node.first_child)
                     THEN expand_to_neighboring_children(tree, i, neighbor)
                     ELSE IF neighbor_node.is_leaf
                     THEN find_neighboring_subnode_for_subnode(tree, i, neighbor, subnode)
                     ELSE <<neighbor>>
            ELSE IF IsSome(neighbor_node.first_child)
            THEN expand_to_neighboring_children(tree, i, neighbor)
            ELSE IF neighbor_node.is_leaf
            THEN expand_to_neighboring_subnodes(tree, i, neighbor)
            ELSE <<neighbor>>

(* the faces from 5 down to 0 *)
successors_faces_reversed(tree, l) ==
    Flatten([i \in 1..6 |-> successors_of_face(tree, l, 6 - i)])

successors(tree, l) == Flatten([i \in 1..6 |-> successors_of_face(tree, l, i - 1)])

Returned(l) == [panic |-> FALSE, link |-> l]

Panicked == [panic |-> TRUE, link |-> None]

RECURSIVE find_node_loop(_, _, _, _)
find_node_loop(tree, voxel_position, current_node, overflow_checks) ==
    LET nd == NodeAt(tree.layers, current_node)
        overflows == u32_sub_overflows(voxel_position, nd.position)
        local_coords == VSub(voxel_position, nd.position)
        half == nd.size \div 2
        offset == <<u32_div(local_coords[1], half), u32_div(local_coords[2], half),
                    u32_div(local_coords[3], half)>>
        found == {i \in 0..7 : At(OFFSETS_IN_MORTON_CODE_ORDER, i) = offset}
    IN  IF nd.is_leaf /\ is_empty(At(tree.leafs, current_node.node_index))
        THEN Returned(Some(SparseVoxelOctreeLink(current_node.layer_index,
                                                 current_node.node_index, None)))
        ELSE IF nd.is_leaf /\ overflows /\ overflow_checks THEN Panicked
        ELSE IF nd.is_leaf /\ IsSome(encode_as_u8(local_coords))
        THEN Returned(Some(SparseVoxelOctreeLink(current_node.layer_index,
                                                 current_node.node_index,
                                                 encode_as_u8(local_coords))))
        ELSE IF IsSome(nd.first_child)
        THEN IF overflows /\ overflow_checks THEN Panicked
             ELSE IF found = {} THEN Returned(None)
             ELSE find_node_loop(tree, voxel_position,
                      SparseVoxelOctreeLink(Unwrap(nd.first_child).layer_index,
                          Unwrap(nd.first_child).node_index + (CHOOSE i \in found : TRUE),
                          None),
                      overflow_checks)
        ELSE Returned(Some(current_node))

(* position is in quarters; overflow_checks tells a debug from a release build *)
find_node(tree, position, overflow_checks) ==
    LET voxel_position ==
            as_uvec3(VSub(<<Trunc(position[1], tree.voxel_size),
                            Trunc(position[2], tree.voxel_size),
                            Trunc(position[3], tree.voxel_size)>>, tree.origin))
    IN  IF Len(tree.layers[Len(tree.layers)]) = 0 THEN Panicked
        ELSE find_node_loop(tree, voxel_position,
                 SparseVoxelOctreeLink(Len(tree.layers) - 1, 0, None), overflow_checks)

-----------------------------------------------------------------------------
(* cohen_sutherland.rs *)

(* a region code is the set of its 1 bits *)
LEFT == {0}

RIGHT == {1}

BOTTOM == {2}

TOP == {3}

NEAR == {4}

FAR == {5}

(* the region code for a box without its upper faces *)
assign_region_code_half_open(p, bmin, bmax) ==
    (IF p[1] < bmin[1] THEN LEFT ELSE IF p[1] >= bmax[1] THEN RIGHT ELSE {})
        \cup (IF p[2] < bmin[2] THEN BOTTOM ELSE IF p[2] >= bmax[2] THEN TOP ELSE {})
        \cup (IF p[3] < bmin[3] THEN NEAR ELSE IF p[3] >= bmax[3] THEN FAR ELSE {})

assign_region_code(p, bmin, bmax) ==
    (IF p[1] < bmin[1] THEN LEFT ELSE IF p[1] > bmax[1] THEN RIGHT ELSE {})
        \cup (IF p[2] < bmin[2] THEN BOTTOM ELSE IF p[2] > bmax[2] THEN TOP ELSE {})
        \cup (IF p[3] < bmin[3] THEN NEAR ELSE IF p[3] > bmax[3] THEN FAR ELSE {})

cohen_sutherland(l1, l2, bmin, bmax) ==
    LET code1 == assign_region_code(l1, bmin, bmax)
        code2 == assign_region_code(l2, bmin, bmax)
    IN  IF code1 = {} /\ code2 = {} THEN "Inside"
        ELSE IF code1 \cap code2 # {} THEN "Outside"
        ELSE "Clip"

-----------------------------------------------------------------------------
(* sparse_voxel_octree.rs: is_in_line_of_sight *)

(* the set bits of a leaf, in ascending order *)
get_occupied_indexes(leaf_bits) ==
    [k \in 1..Cardinality(leaf_bits) |->
        CHOOSE i \in leaf_bits : Cardinality({j \in leaf_bits : j < i}) = k - 1]

(* ((p / voxel_size).as_ivec3() - origin).max(ZERO).as_uvec3(); p in quarters *)
clamped_voxel(tree, p) ==
    as_uvec3(VMax(VSub(<<Trunc(p[1], tree.voxel_size), Trunc(p[2], tree.voxel_size),
                         Trunc(p[3], tree.voxel_size)>>, tree.origin), ZERO))

(* `for index in occupied`: some occupied voxel of the leaf is not Outside *)
occupied_voxel_blocks(tree, from, to, child_node, leaf_bits) ==
    LET occupied == get_occupied_indexes(leaf_bits)
    IN  \E k \in 1..Len(occupied) :
            LET local_coords == decode(occupied[k])
                corner == VAdd(child_node.position, local_coords)
            IN  cohen_sutherland(from, to, corner, VAdd(corner, <<1, 1, 1>>)) # "Outside"

(* the body of `for i in 0..8`; s = <<open, returned false>> *)
sight_child(tree, from, to, nd, first_child, i, s) ==
    LET child_node == At(At(tree.layers, first_child.layer_index), first_child.node_index + i)
        leaf_bits == At(tree.leafs, first_child.node_index + i)
    IN  IF s[2] THEN s
        ELSE IF cohen_sutherland(from, to, child_node.position,
                    VAdd(child_node.position, <<nd.size, nd.size, nd.size>>)) = "Outside"
        THEN s
        ELSE IF child_node.is_leaf
        THEN IF is_empty(leaf_bits) THEN s
             ELSE IF is_full(leaf_bits) THEN <<s[1], TRUE>>
             ELSE <<s[1], occupied_voxel_blocks(tree, from, to, child_node, leaf_bits)>>
        ELSE <<Append(s[1], SparseVoxelOctreeLink(first_child.layer_index,
                                                  first_child.node_index + i, None)),
               s[2]>>

(* one turn of `while let Some(link) = open.pop()` *)
sight_step(tree, from, to, s) ==
    IF s[2] \/ Len(s[1]) = 0 THEN s
    ELSE LET open == s[1]
             l    == open[Len(open)]
             nd   == NodeAt(tree.layers, l)
             rest == <<SubSeq(open, 1, Len(open) - 1), FALSE>>
         IN  IF IsNone(nd.first_child) THEN rest
             ELSE Fold(LAMBDA acc, i :
                          sight_child(tree, from, to, nd, Unwrap(nd.first_child), i, acc),
                       rest, 0, 7)

(* from and to are in quarters; a node is pushed once, by its parent, so   *)
(* the stack empties within node_count turns; the top layer is not empty   *)
is_in_line_of_sight(tree, from, to) ==
    LET f == clamped_voxel(tree, from)
        t == clamped_voxel(tree, to)
    IN  ~Iterate(LAMBDA s : sight_step(tree, f, t, s),
                 << <<SparseVoxelOctreeLink(Len(tree.layers) - 1, 0, None)>>, FALSE >>,
                 node_count(tree.layers))[2]

-----------------------------------------------------------------------------
(* sparse_voxel_octree.rs: node_position and face_position_between         *)

(* Positions in world space are in quarters, as voxel_size is.  The centre *)
(* of a node or of a subnode is an even number of quarters on each axis,   *)
(* so the halves taken below are exact, as they are in f32.                *)
node_position(tree, l) ==
    LET nd == NodeAt(tree.layers, l)
        position == VScale(VAdd(nd.position, tree.origin), tree.voxel_size)
        scale_f32 == VScale(<<nd.size, nd.size, nd.size>>, tree.voxel_size)
    IN  IF IsSome(l.subnode_index)
        THEN LET p == At(SUBNODE_POSITIONS, Unwrap(l.subnode_index))
             IN  VAdd(VAdd(position, VScale(p, tree.voxel_size)),
                      <<tree.voxel_size \div 2, tree.voxel_size \div 2,
                        tree.voxel_size \div 2>>)
        ELSE VAdd(position, VDiv(scale_f32, 2))

(* the loop over the neighbours of a, the link of the lower layer *)
face_position_of_neighbor(tree, a, b) ==
    LET neighbors == NodeAt(tree.layers, a).neighbors
        found == {i \in 0..5 : At(neighbors, i) = Some(b)}
    IN  IF found = {} THEN None
        ELSE LET i == CHOOSE x \in found : \A y \in found : x <= y
                 n == Unwrap(At(neighbors, i))
                 nd == NodeAt(tree.layers, n)
                 neighbor_offset == At(NEIGHBOR_POSITION_OFFSETS, i)
             IN  Some(VAdd(node_position(tree, n),
                           VScale(neighbor_offset, (nd.size * tree.voxel_size) \div 2)))

(* the neighbours of the first link are searched, whichever its layer *)
face_position_between_from_first(tree, a, b) ==
    IF a.layer_index = b.layer_index
    THEN Some(VDiv(VAdd(node_position(tree, a), node_position(tree, b)), 2))
    ELSE face_position_of_neighbor(tree, a, b)

face_position_between(tree, a, b) ==
    IF a.layer_index = b.layer_index
    THEN Some(VDiv(VAdd(node_position(tree, a), node_position(tree, b)), 2))
    ELSE IF a.layer_index > b.layer_index
    THEN face_position_of_neighbor(tree, b, a)
    ELSE face_position_of_neighbor(tree, a, b)

-----------------------------------------------------------------------------
(* sparse_voxel_octree_link.rs *)

(* node.position * 4, plus the position of the subnode *)
position_at_leaf_resolution(tree, l) ==
    LET node_position_4 == VScale(NodeAt(tree.layers, l).position, 4)
    IN  IF IsSome(l.subnode_index)
        THEN VAdd(node_position_4, At(SUBNODE_POSITIONS, Unwrap(l.subnode_index)))
        ELSE node_position_4

Abs(n) == IF n < 0 THEN -n ELSE n

(* ManhattanDistance for a point of u32: the sum of the distances on the   *)
(* three axes                                                              *)
point_manhattan_distance(p, q) == Abs(p[1] - q[1]) + Abs(p[2] - q[2]) + Abs(p[3] - q[3])

(* the subnode of the other link is left out *)
manhattan_distance_to_the_node(self, other, tree) ==
    point_manhattan_distance(position_at_leaf_resolution(tree, self),
                             VScale(NodeAt(tree.layers, other).position, 4))

manhattan_distance(self, other, tree) ==
    point_manhattan_distance(position_at_leaf_resolution(tree, self),
                             position_at_leaf_resolution(tree, other))

-----------------------------------------------------------------------------
(* The inputs the model draws from *)

MaxMeshes == 1

MaxHops == 1

(* voxel sizes 1.0 and 2.0, in quarters *)
VoxelSizes == {4, 8}

FullCube == [i \in 1..64 |-> At(SUBNODE_POSITIONS, i - 1)]

(* one voxel; two voxels 8 apart; two voxels of one leaf and a far one;    *)
(* a full leaf and a far voxel, placed by the mesh's corner                *)
MeshPool ==
    { VoxelizedMesh(<< <<0, 3, 0>> >>, 4, ZERO),
      VoxelizedMesh(<< <<0, 3, 0>>, <<8, 0, 0>> >>, 4, ZERO),
      VoxelizedMesh(<< <<0, 0, 0>>, <<0, 3, 0>>, <<20, 20, 20>> >>, 4, ZERO),
      VoxelizedMesh(Append(FullCube, <<17, 17, 17>>), 4, <<4, 4, 4>>) }

(* arguments of set_bounds, in quarters: (-3.5, 3.5) and (-4, 4) *)
BoundsPool == { << <<-14, -14, -14>>, <<14, 14, 14>> >>,
                << <<-16, -16, -16>>, <<16, 16, 16>> >> }

(* arguments of find_node, in quarters *)
FixedPoints ==
    { <<0, 0, 0>>, <<4, 4, 4>>, <<0, 8, 0>>, <<0, 12, 0>>, <<0, 16, 0>>, <<4, 12, 0>>, <<-2, 12, 0>>, <<16, 12, 0>>,
      <<36, 20, 20>>, <<48, 16, 16>>, <<48, 48, 48>>, <<64, 16, 16>>, <<70, 70, 70>>,
      <<84, 80, 80>>, <<128, 0, 0>>, <<-20, -20, -20>> }

AllVoxels(ms) == Range(Flatten([i \in 1..Len(ms) |-> voxels(ms[i])]))

(* the world positions of the first and the last voxel of every mesh *)
VoxelPoints(ms) ==
    UNION {{VScale(voxels(ms[i])[k], voxel_size) : k \in {1, Len(voxels(ms[i]))}} :
              i \in 1..Len(ms)}

QueryPoints == FixedPoints \cup VoxelPoints(meshes)

tree == [origin |-> origin, layers |-> layers, leafs |-> leafs, voxel_size |-> voxel_size]

(* arguments of is_in_line_of_sight, in quarters *)
SightPoints ==
    { <<0, 0, 0>>, <<0, 16, 0>>, <<12, 0, 0>>, <<48, 48, 48>> } \cup VoxelPoints(meshes)

(* the node indices the links are made for: the first node of a layer and *)
(* the last node of its first octet                                        *)
NodePool == {0, 7}

(* links to nodes of every layer, to two subnodes, and to the neighbours   *)
(* of the last leaf of the first octet                                     *)
ValidLinks ==
    IF Len(layers) = 0 THEN {}
    ELSE LET nodes == UNION {{SparseVoxelOctreeLink(l, n, None) :
                                 n \in NodePool \cap (0..(Len(At(layers, l)) - 1))} :
                             l \in 0..(Len(layers) - 1)}
             last == SparseVoxelOctreeLink(0, 7, None)
         IN  IF last \notin nodes THEN nodes
             ELSE nodes \cup {SparseVoxelOctreeLink(0, 0, Some(0)),
                              SparseVoxelOctreeLink(0, 7, Some(63))}
                        \cup {Unwrap(At(NodeAt(layers, last).neighbors, f)) :
                                f \in {g \in 0..5 :
                                         IsSome(At(NodeAt(layers, last).neighbors, g))}}

-----------------------------------------------------------------------------
(* The builder and the octree as a state machine *)

Init ==
    /\ voxel_size \in VoxelSizes
    /\ meshes = <<>>
    /\ min = IVec3_MAX
    /\ max = IVec3_MIN
    /\ phase = "builder"
    /\ origin = ZERO
    /\ layers = <<>>
    /\ leafs = <<>>
    /\ op = "new"
    /\ point = ZERO
    /\ link = None
    /\ result = <<>>
    /\ hops = 0
    /\ sight_from = ZERO
    /\ sight_to = ZERO
    /\ sight = FALSE
    /\ other_link = None
    /\ face_position = None
    /\ distance = 0

add_mesh(mesh) ==
    /\ phase = "builder"
    /\ Len(meshes) < MaxMeshes
    /\ meshes' = Append(meshes, mesh)
    /\ UNCHANGED <<voxel_size, min, max, phase, origin, layers, leafs, op, point, link,
                   result, hops, geometry>>

set_bounds(bmin, bmax) ==
    /\ phase = "builder"
    /\ min' = <<Floor(bmin[1], voxel_size), Floor(bmin[2], voxel_size),
                Floor(bmin[3], voxel_size)>>
    /\ max' = <<Ceil(bmax[1], voxel_size), Ceil(bmax[2], voxel_size),
                Ceil(bmax[3], voxel_size)>>
    /\ UNCHANGED <<voxel_size, meshes, phase, origin, layers, leafs, op, point, link,
                   result, hops, geometry>>

Build ==
    /\ phase = "builder"
    /\ \E built \in {build(meshes, min, max, voxel_size)} :
           IF IsNone(built)
           THEN /\ phase' = "panicked"
                /\ UNCHANGED <<origin, layers, leafs>>
           ELSE /\ phase' = "octree"
                /\ origin' = Unwrap(built).origin
                /\ layers' = Unwrap(built).layers
                /\ leafs' = Unwrap(built).leafs
    /\ op' = "build"
    /\ UNCHANGED <<voxel_size, meshes, min, max, point, link, result, hops, geometry>>

FindNode(position, overflow_checks) ==
    /\ phase = "octree"
    /\ op = "build"
    /\ \E found \in {find_node(tree, position, overflow_checks)} :
           /\ phase' = IF found.panic THEN "panicked" ELSE phase
           /\ link' = found.link
    /\ point' = position
    /\ op' = "find_node"
    /\ UNCHANGED <<voxel_size, meshes, min, max, origin, layers, leafs, result, hops,
                   geometry>>

Successors ==
    /\ phase = "octree"
    /\ op \in {"find_node", "visit"}
    /\ IsSome(link)
    /\ result' = successors(tree, Unwrap(link))
    /\ op' = "successors"
    /\ UNCHANGED <<voxel_size, meshes, min, max, phase, origin, layers, leafs, point,
                   link, hops, geometry>>

(* the caller moves on to one of the links successors returned *)
Visit(k) ==
    /\ phase = "octree"
    /\ op = "successors"
    /\ hops < MaxHops
    /\ link' = Some(result[k])
    /\ result' = <<>>
    /\ hops' = hops + 1
    /\ op' = "visit"
    /\ UNCHANGED <<voxel_size, meshes, min, max, phase, origin, layers, leafs, point,
                   geometry>>

(* indexing the top layer at 0 panics when the layer is empty *)
IsInLineOfSight(f, t) ==
    /\ phase = "octree"
    /\ op = "build"
    /\ IF Len(layers[Len(layers)]) = 0
       THEN /\ phase' = "panicked"
            /\ UNCHANGED sight
       ELSE /\ sight' = is_in_line_of_sight(tree, f, t)
            /\ UNCHANGED phase
    /\ sight_from' = f
    /\ sight_to' = t
    /\ op' = "is_in_line_of_sight"
    /\ UNCHANGED <<voxel_size, meshes, min, max, origin, layers, leafs, point, link,
                   result, hops, other_link, face_position, distance>>

FacePositionBetween(a, b) ==
    /\ phase = "octree"
    /\ op = "build"
    /\ link' = Some(a)
    /\ other_link' = Some(b)
    /\ face_position' = face_position_between(tree, a, b)
    /\ op' = "face_position_between"
    /\ UNCHANGED <<voxel_size, meshes, min, max, phase, origin, layers, leafs, point,
                   result, hops, sight_from, sight_to, sight, distance>>

ManhattanDistance(a, b) ==
    /\ phase = "octree"
    /\ op = "build"
    /\ link' = Some(a)
    /\ other_link' = Some(b)
    /\ distance' = manhattan_distance(a, b, tree)
    /\ op' = "manhattan_distance"
    /\ UNCHANGED <<voxel_size, meshes, min, max, phase, origin, layers, leafs, point,
                   result, hops, sight_from, sight_to, sight, face_position>>

Next ==
    \/ \E mesh \in MeshPool : add_mesh(mesh)
    \/ \E b \in BoundsPool : set_bounds(b[1], b[2])
    \/ Build
    \/ \E position \in QueryPoints, overflow_checks \in BOOLEAN :
          FindNode(position, overflow_checks)
    \/ Successors
    \/ \E k \in 1..Len(result) : Visit(k)
    \/ \E f \in SightPoints, t \in SightPoints : IsInLineOfSight(f, t)
    \/ \E a \in ValidLinks, b \in ValidLinks : FacePositionBetween(a, b)
    \/ \E a \in ValidLinks, b \in ValidLinks : ManhattanDistance(a, b)

Spec == Init /\ [][Next]_vars

-----------------------------------------------------------------------------
(* What the properties below speak of *)

JustBuilt == op = "build" /\ phase = "octree"

TopLayer == layers[Len(layers)]

InputVoxels == AllVoxels(meshes)

NoBounds == min = IVec3_MAX /\ max = IVec3_MIN

(* the voxel a world point lies in: voxel v is the cube from v * voxel_size *)
(* to (v + 1) * voxel_size, as node_position has it                         *)
VoxelOf(p) == <<Floor(p[1], voxel_size), Floor(p[2], voxel_size), Floor(p[3], voxel_size)>>

InCube(v, position, size) == \A k \in 1..3 : position[k] <= v[k] /\ v[k] < position[k] + size

-----------------------------------------------------------------------------
(* C1: on every octree build returns, a node whose first_child is set has  *)
(* its eight children at the consecutive indices first_child.node_index .. *)
(* first_child.node_index + 7 of the layer directly below, and the j-th    *)
(* child's position is the parent's position plus the j-th octant offset   *)
(* in Morton order times half the parent's size.                           *)
C1_children_are_an_octet ==
    JustBuilt =>
        \A l \in 0..(Len(layers) - 1) : \A n \in 0..(Len(At(layers, l)) - 1) :
            LET nd == At(At(layers, l), n)
            IN  IsSome(nd.first_child) =>
                    LET fc == Unwrap(nd.first_child)
                    IN  /\ l >= 1
                        /\ fc.layer_index = l - 1
                        /\ IsNone(fc.subnode_index)
                        /\ fc.node_index >= 0
                        /\ fc.node_index + 7 <= Len(At(layers, l - 1)) - 1
                        /\ \A j \in 0..7 :
                              At(At(layers, l - 1), fc.node_index + j).position
                                = VAdd(nd.position,
                                       VScale(At(OFFSETS_IN_MORTON_CODE_ORDER, j),
                                              nd.size \div 2))

(* an octree of four layers whose second layer holds two octets *)
C1_witness ==
    /\ JustBuilt
    /\ Len(layers) = 4
    /\ Len(layers[2]) = 16
    /\ IsSome(layers[3][1].first_child)
    /\ \E n \in 1..Len(layers[3]) :
          /\ IsSome(layers[3][n].first_child)
          /\ Unwrap(layers[3][n].first_child).node_index = 8

-----------------------------------------------------------------------------
(* the region build spans: the bounds, widened by the voxels *)
RegionOf(ms) ==
    LET mm == get_min_max(Flatten([i \in 1..Len(ms) |-> voxels(ms[i])]))
    IN  <<VMin(min, mm[1]), VMax(max, mm[2])>>

(* C2: on every octree build returns, for any voxel set, with or without   *)
(* bounds, the top layer holds exactly one node, and that node's size is a *)
(* power of two, at least 4 and at least the largest extent of the bounded *)
(* region.                                                                 *)
C2_single_root ==
    JustBuilt =>
        /\ Len(TopLayer) = 1
        /\ is_power_of_two(TopLayer[1].size)
        /\ TopLayer[1].size >= 4
        /\ TopLayer[1].size >= max_element(VSub(RegionOf(meshes)[2], RegionOf(meshes)[1]))

-----------------------------------------------------------------------------
(* find_node was asked for the world position of the input voxel v *)
AskedForVoxel(v) == op = "find_node" /\ v \in InputVoxels /\ point = VScale(v, voxel_size)

(* C3: for every octree built from a non-empty voxel set, with or without  *)
(* bounds, and every input voxel v, find_node at the world position of v   *)
(* returns a layer-0 link that carries a subnode index, the occupancy bit  *)
(* of that subnode is set in leafs[node_index], and the node's position    *)
(* plus the subnode's position is v minus origin.                          *)
C3_round_trip ==
    \A v \in InputVoxels :
        AskedForVoxel(v) =>
            /\ phase = "octree"
            /\ IsSome(link)
            /\ Unwrap(link).layer_index = 0
            /\ IsSome(Unwrap(link).subnode_index)
            /\ get_by_index(At(leafs, Unwrap(link).node_index),
                            Unwrap(Unwrap(link).subnode_index))
            /\ VAdd(NodeAt(layers, Unwrap(link)).position,
                    At(SUBNODE_POSITIONS, Unwrap(Unwrap(link).subnode_index)))
                 = VSub(v, origin)

-----------------------------------------------------------------------------
(* the octree has one root, and the voxel of the point find_node was asked *)
(* for lies in the root's cube                                             *)
AskedInsideRoot ==
    /\ op = "find_node"
    /\ Len(TopLayer) = 1
    /\ InCube(VSub(VoxelOf(point), origin), TopLayer[1].position, TopLayer[1].size)

(* C4: for every built octree and every world point whose voxel lies       *)
(* inside the root cube, find_node returns a link to a node that has no    *)
(* children and whose cube contains that voxel; the link carries no        *)
(* subnode index when the node is an interior node or an empty leaf, and   *)
(* for a non-empty leaf it carries the subnode index, in 0..63, that is    *)
(* the Morton code of the voxel's offset inside the leaf.                  *)
C4_find_node_contains_voxel ==
    AskedInsideRoot =>
        /\ phase = "octree"
        /\ IsSome(link)
        /\ LET l  == Unwrap(link)
               nd == NodeAt(layers, l)
               v  == VSub(VoxelOf(point), origin)
           IN  /\ IsNone(nd.first_child)
               /\ InCube(v, nd.position, nd.size)
               /\ IF l.layer_index = 0 /\ ~is_empty(At(leafs, l.node_index))
                  THEN /\ IsSome(l.subnode_index)
                       /\ Unwrap(l.subnode_index) \in 0..63
                       /\ At(SUBNODE_POSITIONS, Unwrap(l.subnode_index))
                            = VSub(v, nd.position)
                  ELSE IsNone(l.subnode_index)

-----------------------------------------------------------------------------
(* builder.add_mesh(VoxelizedMesh::new(vec![UVec3::new(0, 3, 0)], 1.0,      *)
(* IVec3::ZERO)) on SparseVoxelOctreeBuilder::new(1.0), no bounds, and      *)
(* find_node(Vec3::new(0.0, 3.0, 0.0)) on what it builds                    *)
AskedFor030 == op = "find_node" /\ voxel_size = 4 /\ NoBounds /\ point = <<0, 12, 0>>

OnlyVoxel030 == meshes = <<VoxelizedMesh(<< <<0, 3, 0>> >>, 4, ZERO)>>

(* C5, as the specification has it: for the octree built with voxel size 1 *)
(* and no bounds from the single voxel (0,3,0), find_node((0,3,0)) returns *)
(* the link with layer index 0, node index 0 and subnode index 18.         *)
C5_single_voxel_subnode_18 ==
    (AskedFor030 /\ OnlyVoxel030) =>
        link = Some(SparseVoxelOctreeLink(0, 0, Some(18)))

(* C5, amended: the origin of that octree is the voxel itself, (0,3,0),    *)
(* and find_node((0,3,0)) returns layer index 0, node index 0 and subnode  *)
(* index 0, the Morton code of (0,3,0) - origin; the subnode index is 18,  *)
(* the Morton code of (0,3,0), when the voxel set also holds (0,0,0),      *)
(* which makes (0,0,0) the origin.                                         *)
C5_subnode_is_relative_to_origin ==
    /\ (AskedFor030 /\ OnlyVoxel030) =>
          /\ origin = <<0, 3, 0>>
          /\ link = Some(SparseVoxelOctreeLink(0, 0, Some(0)))
    /\ (AskedFor030 /\ {<<0, 0, 0>>, <<0, 3, 0>>} \subseteq InputVoxels) =>
          /\ origin = <<0, 0, 0>>
          /\ link = Some(SparseVoxelOctreeLink(0, 0, Some(18)))

C5_witness == AskedFor030 /\ OnlyVoxel030 /\ phase = "octree" /\ IsSome(link)

-----------------------------------------------------------------------------
(* the cube a link designates, in voxels from the origin *)
CubePosition(l) ==
    IF IsSome(l.subnode_index)
    THEN VAdd(NodeAt(layers, l).position, At(SUBNODE_POSITIONS, Unwrap(l.subnode_index)))
    ELSE NodeAt(layers, l).position

CubeSize(l) == IF IsSome(l.subnode_index) THEN 1 ELSE NodeAt(layers, l).size

(* the link names a node of the octree, and a subnode only of a leaf *)
IsLinkOfTree(l) ==
    /\ l.layer_index \in 0..(Len(layers) - 1)
    /\ l.node_index \in 0..(Len(At(layers, l.layer_index)) - 1)
    /\ IsSome(l.subnode_index) =>
          /\ l.layer_index = 0
          /\ Unwrap(l.subnode_index) \in 0..63

EmptyLeaf(l) ==
    /\ IsNone(l.subnode_index)
    /\ NodeAt(layers, l).is_leaf
    /\ is_empty(At(leafs, l.node_index))

ChildlessNonLeaf(l) ==
    /\ IsNone(l.subnode_index)
    /\ ~NodeAt(layers, l).is_leaf
    /\ IsNone(NodeAt(layers, l).first_child)

FreeSubnode(l) ==
    /\ IsSome(l.subnode_index)
    /\ NodeAt(layers, l).is_leaf
    /\ ~get_by_index(At(leafs, l.node_index), Unwrap(l.subnode_index))

FreeCell(l) == IsLinkOfTree(l) /\ (EmptyLeaf(l) \/ ChildlessNonLeaf(l) \/ FreeSubnode(l))

(* successors has just answered for a link that find_node or an earlier *)
(* successors returned                                                  *)
Answered == op = "successors"

(* C6: for every built octree and every link L that find_node or successors *)
(* returned, every link of successors(L) designates an empty leaf, a whole  *)
(* non-leaf node without children, or a subnode of a leaf whose occupancy   *)
(* bit is 0; never a node with children, a non-empty leaf as a whole, or an *)
(* occupied subnode.                                                        *)
C6_successors_are_free ==
    Answered => \A k \in 1..Len(result) : FreeCell(result[k])

(* an answer that holds a cell of each of the three kinds, for a link that *)
(* successors itself returned                                              *)
C6_witness ==
    /\ Answered
    /\ hops > 0
    /\ \E k \in 1..Len(result) : EmptyLeaf(result[k])
    /\ \E k \in 1..Len(result) : ChildlessNonLeaf(result[k])
    /\ \E k \in 1..Len(result) : FreeSubnode(result[k])

-----------------------------------------------------------------------------
(* the faces in the order of the neighbours: +X, +Z, -X, -Z, +Y, -Y *)
FaceDirection == << <<1, 0, 0>>, <<0, 0, 1>>, <<-1, 0, 0>>, <<0, 0, -1>>,
                    <<0, 1, 0>>, <<0, -1, 0>> >>

(* the cube at position p of size s lies in the cube of the node nb and *)
(* touches the face nb shares with its neighbour on the other side of f *)
InsideNode(p, s, nb) ==
    \A k \in 1..3 : nb.position[k] <= p[k] /\ p[k] + s <= nb.position[k] + nb.size

TouchesSharedFace(p, s, nb, f) ==
    \A k \in 1..3 :
        /\ At(FaceDirection, f)[k] = 1 => p[k] = nb.position[k]
        /\ At(FaceDirection, f)[k] = -1 => p[k] + s = nb.position[k] + nb.size

AllLinks ==
    UNION {{SparseVoxelOctreeLink(l, n, None) : n \in 0..(Len(At(layers, l)) - 1)} :
              l \in 0..(Len(layers) - 1)}
      \cup {SparseVoxelOctreeLink(0, n, Some(s)) :
              n \in 0..(Len(At(layers, 0)) - 1), s \in 0..63}

(* a free cell named as successors names it: an empty leaf as a whole, a *)
(* mixed leaf subnode by subnode                                        *)
SubnodeOfMixedLeaf(l) == FreeSubnode(l) /\ ~is_empty(At(leafs, l.node_index))

ProperFreeCell(l) ==
    IsLinkOfTree(l) /\ (EmptyLeaf(l) \/ ChildlessNonLeaf(l) \/ SubnodeOfMixedLeaf(l))

(* the free cells of the subtree of nb that touch the face shared through f *)
FreeCellsOnFace(nb, f) ==
    {l \in AllLinks : /\ ProperFreeCell(l)
                      /\ InsideNode(CubePosition(l), CubeSize(l), nb)
                      /\ TouchesSharedFace(CubePosition(l), CubeSize(l), nb, f)}

(* what the answer holds of the subtree of nb *)
ReturnedInside(nb) ==
    {result[k] : k \in {i \in 1..Len(result) :
                          /\ IsLinkOfTree(result[i])
                          /\ InsideNode(CubePosition(result[i]), CubeSize(result[i]), nb)}}

(* the voxels of nb next to the shared face *)
FaceVoxels(nb, f) ==
    {v \in (nb.position[1]..(nb.position[1] + nb.size - 1))
             \X (nb.position[2]..(nb.position[2] + nb.size - 1))
             \X (nb.position[3]..(nb.position[3] + nb.size - 1)) :
        TouchesSharedFace(v, 1, nb, f)}

(* successors has answered for a whole node whose neighbour through f has *)
(* children                                                               *)
AnsweredNextToSubtree(f) ==
    /\ Answered
    /\ IsNone(Unwrap(link).subnode_index)
    /\ IsSome(At(NodeAt(layers, Unwrap(link)).neighbors, f))
    /\ IsSome(NodeAt(layers, Unwrap(At(NodeAt(layers, Unwrap(link)).neighbors, f))).first_child)

(* C7: for a whole-node link L and a face f whose neighbour node has       *)
(* children, the links successors(L) returns for f are exactly the free    *)
(* cells of the neighbour's subtree that touch the shared face: every      *)
(* childless non-leaf descendant, every empty leaf and every unoccupied    *)
(* subnode of a mixed leaf touching the face, nothing else, and together   *)
(* they cover precisely the unoccupied voxels along the face.              *)
C7_face_of_a_subtree ==
    \A f \in 0..5 :
        AnsweredNextToSubtree(f) =>
            LET nd == NodeAt(layers, Unwrap(link))
                nb == NodeAt(layers, Unwrap(At(nd.neighbors, f)))
            IN  /\ nb.position = VAdd(nd.position, VScale(At(FaceDirection, f), nd.size))
                /\ nb.size = nd.size
                /\ Range(successors_of_face(tree, Unwrap(link), f)) = FreeCellsOnFace(nb, f)
                /\ ReturnedInside(nb) = FreeCellsOnFace(nb, f)
                /\ \A v \in FaceVoxels(nb, f) :
                      (\E l \in ReturnedInside(nb) : InCube(v, CubePosition(l), CubeSize(l)))
                         <=> VAdd(v, origin) \notin InputVoxels

(* the neighbour's subtree shows the face an empty leaf and a mixed leaf, *)
(* one of whose voxels on the face is occupied                            *)
C7_witness ==
    \E f \in 0..5 :
        /\ AnsweredNextToSubtree(f)
        /\ LET nb == NodeAt(layers, Unwrap(At(NodeAt(layers, Unwrap(link)).neighbors, f)))
           IN  /\ \E l \in ReturnedInside(nb) : EmptyLeaf(l)
               /\ \E l \in ReturnedInside(nb) : FreeSubnode(l)
               /\ \E v \in FaceVoxels(nb, f) : VAdd(v, origin) \in InputVoxels

-----------------------------------------------------------------------------
(* successors has answered for a whole node *)
AnsweredForNode == Answered /\ IsNone(Unwrap(link).subnode_index)

NeighborOn(f) == At(NodeAt(layers, Unwrap(link)).neighbors, f)

(* the links of the answer that lie in the cube of the neighbour on face f, *)
(* in the order of the answer                                               *)
GroupOfFace(f) ==
    IF IsNone(NeighborOn(f)) THEN <<>>
    ELSE SelectSeq(result,
             LAMBDA l : /\ IsLinkOfTree(l)
                        /\ InsideNode(CubePosition(l), CubeSize(l),
                                      NodeAt(layers, Unwrap(NeighborOn(f)))))

AllSixAreChildlessNonLeafs ==
    \A f \in 0..5 : IsSome(NeighborOn(f)) /\ ChildlessNonLeaf(Unwrap(NeighborOn(f)))

(* C8: successors returns its links grouped face by face in the face order *)
(* 0..5 (+X, +Z, -X, -Z, +Y, -Y): for a whole-node link a face without a   *)
(* neighbour contributes nothing, a face whose neighbour is a non-leaf     *)
(* node without children contributes exactly that neighbour, and a node    *)
(* whose six neighbours are all such nodes yields exactly six links, in    *)
(* face order.                                                             *)
C8_grouped_in_face_order ==
    AnsweredForNode =>
        /\ result = GroupOfFace(0) \o GroupOfFace(1) \o GroupOfFace(2)
                      \o GroupOfFace(3) \o GroupOfFace(4) \o GroupOfFace(5)
        /\ \A f \in 0..5 :
              /\ IsNone(NeighborOn(f)) => successors_of_face(tree, Unwrap(link), f) = <<>>
              /\ (IsSome(NeighborOn(f)) /\ ChildlessNonLeaf(Unwrap(NeighborOn(f)))) =>
                    GroupOfFace(f) = <<Unwrap(NeighborOn(f))>>
        /\ AllSixAreChildlessNonLeafs =>
              result = [k \in 1..6 |-> Unwrap(NeighborOn(k - 1))]

(* six childless non-leaf neighbours, not all of one layer, and six links *)
C8_witness ==
    /\ AnsweredForNode
    /\ AllSixAreChildlessNonLeafs
    /\ Len(result) = 6
    /\ \E f, g \in 0..5 : Unwrap(NeighborOn(f)).layer_index # Unwrap(NeighborOn(g)).layer_index

-----------------------------------------------------------------------------
(* the subnode at a position inside a leaf *)
SubnodeAt(p) == CHOOSE s \in 0..63 : At(SUBNODE_POSITIONS, s) = p

(* the cell next to the subnode s through face f, when it is in the leaf *)
CellNextTo(s, f) == VAdd(At(SUBNODE_POSITIONS, s), At(FaceDirection, f))

InLeaf(p) == \A k \in 1..3 : p[k] \in 0..3

(* successors has answered for a subnode of a mixed leaf whose cell next to *)
(* it through f is in the same leaf                                         *)
AnsweredInsideLeaf(f) ==
    /\ Answered
    /\ IsSome(Unwrap(link).subnode_index)
    /\ ~is_empty(At(leafs, Unwrap(link).node_index))
    /\ InLeaf(CellNextTo(Unwrap(Unwrap(link).subnode_index), f))

InLeafLink(f) ==
    SparseVoxelOctreeLink(Unwrap(link).layer_index, Unwrap(link).node_index,
        Some(SubnodeAt(CellNextTo(Unwrap(Unwrap(link).subnode_index), f))))

InLeafCellIsFree(f) ==
    ~get_by_index(At(leafs, Unwrap(link).node_index),
                  SubnodeAt(CellNextTo(Unwrap(Unwrap(link).subnode_index), f)))

(* C9, as the specification has it: for a subnode link s inside a mixed    *)
(* leaf and every face f that s does not lie on, successors(s) contains    *)
(* the link to the in-leaf cell next to s exactly when that cell's         *)
(* occupancy bit is clear, for every leaf, the leaves on the boundary of   *)
(* the root cube included.                                                 *)
C9_in_leaf_step_on_every_leaf ==
    \A f \in 0..5 :
        AnsweredInsideLeaf(f) =>
            (InLeafLink(f) \in Range(result) <=> InLeafCellIsFree(f))

(* C9, amended: successors(s) contains the link to the in-leaf cell next   *)
(* to s through f exactly when that cell's occupancy bit is clear and the  *)
(* leaf has a neighbour on face f; a leaf without a neighbour on f, as one *)
(* on the boundary of the root cube, gets nothing for f.                   *)
C9_in_leaf_step_needs_a_neighbor ==
    \A f \in 0..5 :
        AnsweredInsideLeaf(f) =>
            /\ InLeafLink(f) \in Range(result)
                  <=> (InLeafCellIsFree(f) /\ IsSome(NeighborOn(f)))
            /\ IsNone(NeighborOn(f)) => successors_of_face(tree, Unwrap(link), f) = <<>>

(* a step inside the leaf is returned through one face and, the cell being *)
(* just as free, not through a face on the boundary of the root cube       *)
C9_witness ==
    \E f, g \in 0..5 :
        /\ AnsweredInsideLeaf(f)
        /\ AnsweredInsideLeaf(g)
        /\ Len(TopLayer) = 1
        /\ InLeafCellIsFree(f) /\ IsSome(NeighborOn(f)) /\ InLeafLink(f) \in Range(result)
        /\ InLeafCellIsFree(g) /\ IsNone(NeighborOn(g)) /\ InLeafLink(g) \notin Range(result)

-----------------------------------------------------------------------------
(* +X with -X, +Z with -Z, +Y with -Y *)
opposite(f) == CASE f = 0 -> 2 [] f = 2 -> 0 [] f = 1 -> 3 [] f = 3 -> 1
                 [] f = 4 -> 5 [] f = 5 -> 4

(* C10: on every built octree the neighbour links between nodes of one     *)
(* layer are reciprocal: if node A has neighbors[f] = B and B is in A's    *)
(* layer, then B has neighbors[opposite(f)] = A.                           *)
C10_neighbors_are_reciprocal ==
    JustBuilt =>
        \A l \in 0..(Len(layers) - 1) : \A n \in 0..(Len(At(layers, l)) - 1) :
            \A f \in 0..5 :
                LET b == At(At(At(layers, l), n).neighbors, f)
                IN  (IsSome(b) /\ Unwrap(b).layer_index = l) =>
                       At(NodeAt(layers, Unwrap(b)).neighbors, opposite(f))
                         = Some(SparseVoxelOctreeLink(l, n, None))

(* two nodes of one layer, children of different parents, are neighbours *)
C10_witness ==
    /\ JustBuilt
    /\ \E l \in 0..(Len(layers) - 1) : \E n \in 0..(Len(At(layers, l)) - 1) :
          \E f \in 0..5 :
              LET b == At(At(At(layers, l), n).neighbors, f)
              IN  /\ IsSome(b)
                  /\ Unwrap(b).layer_index = l
                  /\ NodeAt(layers, Unwrap(b)).parent # At(At(layers, l), n).parent

-----------------------------------------------------------------------------
(* The neighbour links and the geometry of the nodes *)

Layer0 == At(layers, 0)

(* the cube of node a, moved by its own size towards face f *)
ShiftedTowards(a, f) == VAdd(a.position, VScale(At(NEIGHBOR_POSITION_OFFSETS, f), a.size))

CubeInside(position, size, b) ==
    \A k \in 1..3 : b.position[k] <= position[k] /\ position[k] + size <= b.position[k] + b.size

NodeLinks ==
    UNION {{SparseVoxelOctreeLink(l, n, None) : n \in 0..(Len(At(layers, l)) - 1)} :
              l \in 0..(Len(layers) - 1)}

(* C11: on every built octree, a neighbour link neighbors[f] = B of a node *)
(* A names a node at least as large as A, and the cube of A moved by A's   *)
(* own size towards face f lies inside the cube of B                       *)
C11_neighbor_is_adjacent_and_coarser ==
    JustBuilt =>
        \A l \in NodeLinks : \A f \in 0..5 :
            LET a == NodeAt(layers, l)
                n == At(a.neighbors, f)
            IN  IsSome(n) =>
                    LET b == NodeAt(layers, Unwrap(n))
                    IN  /\ b.size >= a.size
                        /\ CubeInside(ShiftedTowards(a, f), a.size, b)

(* a built octree with a neighbour link that leads to a larger node *)
C11_witness ==
    /\ JustBuilt
    /\ \E l \in NodeLinks : \E f \in 0..5 :
           LET a == NodeAt(layers, l)
               n == At(a.neighbors, f)
           IN  /\ IsSome(n)
               /\ NodeAt(layers, Unwrap(n)).size > a.size
               /\ CubeInside(ShiftedTowards(a, f), a.size, NodeAt(layers, Unwrap(n)))

-----------------------------------------------------------------------------
(* Layer 0 and the leaves *)

(* the voxels of the input, relative to the origin of the octree *)
OffsetsOfVoxels == {VSub(v, origin) : v \in InputVoxels}

(* C12: on every built octree, leafs and layers[0] have the same length,   *)
(* and bit m of leafs[i] is set exactly when some input voxel, taken       *)
(* relative to the origin, is at layers[0][i].position plus the position   *)
(* of subnode m                                                            *)
C12_leafs_are_aligned_with_layer_zero ==
    JustBuilt =>
        /\ Len(leafs) = Len(Layer0)
        /\ \A i \in 0..(Len(Layer0) - 1) : \A m \in 0..63 :
               get_by_index(At(leafs, i), m)
                   <=> VAdd(At(Layer0, i).position, At(SUBNODE_POSITIONS, m))
                           \in OffsetsOfVoxels

(* a built octree with a leaf that is neither empty nor full, after a leaf *)
(* of another position                                                     *)
C12_witness ==
    /\ JustBuilt
    /\ Len(leafs) = Len(Layer0)
    /\ \E i \in 1..(Len(Layer0) - 1) :
           /\ ~is_empty(At(leafs, i))
           /\ ~is_full(At(leafs, i))
           /\ \E m \in 0..63 :
                  /\ get_by_index(At(leafs, i), m)
                  /\ VAdd(At(Layer0, i).position, At(SUBNODE_POSITIONS, m)) \in OffsetsOfVoxels

HoldsAVoxel(nd) == \E v \in OffsetsOfVoxels : InCube(v, nd.position, nd.size)

(* C13: on every built octree, a node of layer 0 has is_leaf = true        *)
(* exactly when an input voxel falls inside it; the nodes that only fill   *)
(* an octet of eight siblings have is_leaf = false                         *)
C13_is_leaf_iff_it_holds_a_voxel ==
    JustBuilt =>
        \A i \in 0..(Len(Layer0) - 1) : At(Layer0, i).is_leaf <=> HoldsAVoxel(At(Layer0, i))

(* C13, as the code has it: on every built octree every node of layer 0    *)
(* has is_leaf = true, the siblings that only fill an octet included, and  *)
(* an input voxel falls inside a node of layer 0 exactly when its compound *)
(* leaf is not empty                                                       *)
C13_every_node_of_layer_zero_is_a_leaf ==
    JustBuilt =>
        \A i \in 0..(Len(Layer0) - 1) :
            /\ At(Layer0, i).is_leaf
            /\ HoldsAVoxel(At(Layer0, i)) <=> ~is_empty(At(leafs, i))

(* a built octree with a node of layer 0 that holds a voxel and a sibling  *)
(* that holds none                                                         *)
C13_witness ==
    /\ JustBuilt
    /\ \E i, j \in 0..(Len(Layer0) - 1) :
           /\ HoldsAVoxel(At(Layer0, i))
           /\ ~HoldsAVoxel(At(Layer0, j))
           /\ At(Layer0, j).is_leaf
           /\ At(Layer0, i).parent = At(Layer0, j).parent

-----------------------------------------------------------------------------
(* Line of sight *)

AskedForSight == op = "is_in_line_of_sight" /\ phase = "octree"

(* the segment in voxel space, relative to the origin *)
SegmentFrom == clamped_voxel(tree, sight_from)

SegmentTo == clamped_voxel(tree, sight_to)

(* the unit box of an occupied voxel is Inside or Clip for the segment *)
Blocks(v, f, t) == cohen_sutherland(f, t, v, VAdd(v, <<1, 1, 1>>)) # "Outside"

SegmentIsBlocked == \E v \in OffsetsOfVoxels : Blocks(v, SegmentFrom, SegmentTo)

(* C14: for every built octree and every pair of endpoints, if the unit    *)
(* box [p, p+1] of some occupied input voxel, relative to the origin, is   *)
(* not Outside for the segment in voxel space, is_in_line_of_sight returns *)
(* false                                                                   *)
C14_a_blocked_segment_is_not_in_sight ==
    AskedForSight => (SegmentIsBlocked => ~sight)

(* the voxels added to the input: one below the least coordinate of every  *)
(* mesh, one among the voxels of the meshes                                *)
ExtraVoxels == { <<-12, 0, 0>>, <<1, 1, 1>> }

(* the octree built from the meshes and one more voxel, with the same      *)
(* bounds and the same voxel size                                          *)
BuiltWith(v) == build(Append(meshes, VoxelizedMesh(<<v>>, 4, ZERO)), min, max, voxel_size)

(* C15: for any voxel set S, any more voxel v, any bounds and any two      *)
(* points a and b, if is_in_line_of_sight(a, b) is false on the octree     *)
(* built from S, it is false on the octree built from S and v              *)
C15_sight_is_monotone_in_occupancy ==
    (AskedForSight /\ ~sight) =>
        \A v \in ExtraVoxels : \A more \in {BuiltWith(v)} :
            IsSome(more) => ~is_in_line_of_sight(Unwrap(more), sight_from, sight_to)

(* the point asked for twice lies in the cube of the root, and its voxel   *)
(* is not a voxel of the input                                             *)
AskedForAFreePoint ==
    /\ AskedForSight
    /\ sight_from = sight_to
    /\ InCube(VSub(VoxelOf(sight_from), origin), TopLayer[1].position, TopLayer[1].size)
    /\ VoxelOf(sight_from) \notin InputVoxels

(* C16: for every built octree and every point p inside the cube of the    *)
(* root whose voxel is not an occupied input voxel,                        *)
(* is_in_line_of_sight(p, p) returns true                                  *)
C16_a_free_point_sees_itself ==
    AskedForAFreePoint => sight

-----------------------------------------------------------------------------
(* The face between two nodes *)

AskedForFace == op = "face_position_between" /\ phase = "octree"

LinkA == Unwrap(link)

LinkB == Unwrap(other_link)

SameNode(l, n) == l.layer_index = n.layer_index /\ l.node_index = n.node_index

(* the node of b is a neighbour of the node of a *)
HasNeighbor(a, b) ==
    \E f \in 0..5 :
        LET n == At(NodeAt(layers, a).neighbors, f)
        IN  IsSome(n) /\ SameNode(Unwrap(n), b)

Neighbouring(a, b) == HasNeighbor(a, b) \/ HasNeighbor(b, a)

(* C17: face_position_between returns None whenever the two links do not   *)
(* designate neighbouring nodes, also when both links are in one layer     *)
C17_none_unless_neighbours ==
    AskedForFace => (~Neighbouring(LinkA, LinkB) => IsNone(face_position))

(* the centre of the cube of a node, in world space *)
CentreOf(nd) ==
    VAdd(VScale(VAdd(nd.position, origin), voxel_size),
         VScale(<<1, 1, 1>>, (nd.size * voxel_size) \div 2))

(* the centre of the face g of a node *)
FaceCentre(nd, g) ==
    VAdd(CentreOf(nd), VScale(At(NEIGHBOR_POSITION_OFFSETS, g), (nd.size * voxel_size) \div 2))

(* a is in a lower layer than b and has b as its neighbour on face f *)
FinerHasCoarserOn(a, b, f) ==
    /\ a.layer_index < b.layer_index
    /\ At(NodeAt(layers, a).neighbors, f) = Some(b)

(* C18: for links a and b in different layers where the finer node a has   *)
(* neighbors[f] = b, face_position_between(a, b) returns the centre of the *)
(* face of the coarser node b that touches a, a point of the face the two  *)
(* nodes share                                                             *)
C18_centre_of_the_shared_face ==
    AskedForFace =>
        \A f \in 0..5 :
            FinerHasCoarserOn(LinkA, LinkB, f) =>
                face_position = Some(FaceCentre(NodeAt(layers, LinkB), opposite(f)))

(* C19: face_position_between is symmetric: for every built octree and     *)
(* every pair of valid links a and b, face_position_between(a, b) equals   *)
(* face_position_between(b, a), in whether a point is returned and in the  *)
(* point returned                                                          *)
C19_face_position_is_symmetric ==
    AskedForFace => face_position = face_position_between(tree, LinkB, LinkA)

(* the call was made with the link of the higher layer first, and a point  *)
(* came back                                                               *)
C19_witness ==
    /\ AskedForFace
    /\ LinkA.layer_index > LinkB.layer_index
    /\ IsSome(face_position)
    /\ face_position = face_position_between(tree, LinkB, LinkA)

-----------------------------------------------------------------------------
(* The distance between two links *)

AskedForDistance == op = "manhattan_distance" /\ phase = "octree"

(* the offset of the subnode of a link inside its leaf *)
SubnodeOffset(l) ==
    IF IsSome(l.subnode_index) THEN At(SUBNODE_POSITIONS, Unwrap(l.subnode_index)) ELSE ZERO

SamePlace(a, b) ==
    /\ NodeAt(layers, a).position = NodeAt(layers, b).position
    /\ SubnodeOffset(a) = SubnodeOffset(b)

(* C20: for every built octree and all valid links a and b,                *)
(* manhattan_distance(a, b) equals manhattan_distance(b, a), and it is     *)
(* zero if and only if a and b are the same link                           *)
C20_symmetric_and_zero_iff_same_link ==
    AskedForDistance =>
        /\ distance = manhattan_distance(LinkB, LinkA, tree)
        /\ distance = 0 <=> LinkA = LinkB

(* C20, as the code has it: manhattan_distance is symmetric, it is zero    *)
(* for a link and itself, and it is zero exactly when the two links have   *)
(* the same node position and the same subnode offset, which links of      *)
(* different layers or with and without a subnode index can have           *)
C20_symmetric_and_zero_iff_same_place ==
    AskedForDistance =>
        /\ distance = manhattan_distance(LinkB, LinkA, tree)
        /\ LinkA = LinkB => distance = 0
        /\ distance = 0 <=> SamePlace(LinkA, LinkB)

(* two different links at distance zero *)
C20_witness ==
    /\ AskedForDistance
    /\ LinkA # LinkB
    /\ LinkA.layer_index # LinkB.layer_index
    /\ distance = 0

-----------------------------------------------------------------------------
(* Queries on every octree that build returns *)

AfterAQuery ==
    op \in {"find_node", "successors", "visit", "is_in_line_of_sight",
            "face_position_between", "manhattan_distance"}

(* C21: on every octree that build returns, also one built from no voxels  *)
(* with or without bounds, find_node and is_in_line_of_sight end without a *)
(* runtime failure for every point, and the queries on links end without   *)
(* one for every link that find_node or successors returned                *)
C21_queries_never_fail ==
    AfterAQuery => phase # "panicked"

NoVoxels == InputVoxels = {}

(* bounds (-4,-4,-4)..(4,4,4) in voxels of size 1 *)
BoundsOfFour == voxel_size = 4 /\ min = <<-4, -4, -4>> /\ max = <<4, 4, 4>>

(* C22: voxel size 1, no voxels and bounds (-4,-4,-4)..(4,4,4) give an     *)
(* octree of exactly two layers: eight empty nodes of size 4 in layer 0    *)
(* and a single root of size 8 in layer 1                                  *)
C22_no_voxels_two_layers ==
    (JustBuilt /\ NoVoxels /\ BoundsOfFour) =>
        /\ Len(layers) = 2
        /\ Len(layers[1]) = 8
        /\ \A i \in 1..Len(layers[1]) : layers[1][i].size = 4 /\ is_empty(leafs[i])
        /\ Len(layers[2]) = 1
        /\ \A i \in 1..Len(layers[2]) : layers[2][i].size = 8

Reverse(s) == [i \in 1..Len(s) |-> s[Len(s) + 1 - i]]

WithVoxels(mesh, vs) == VoxelizedMesh(vs, mesh.voxel_size, mesh.left_top_corner)

(* a mesh as two meshes: its first voxel, and the other voxels *)
SplitInTwo(mesh) ==
    << WithVoxels(mesh, SubSeq(mesh.voxels, 1, 1)),
       WithVoxels(mesh, SubSeq(mesh.voxels, 2, Len(mesh.voxels))) >>

(* the same set of voxels given in other ways: the meshes in reverse order *)
(* with every voxel twice, the second time in reverse order, and every     *)
(* mesh split in two                                                       *)
SameVoxelsOtherwise ==
    { Reverse([i \in 1..Len(meshes) |->
                 WithVoxels(meshes[i], meshes[i].voxels \o Reverse(meshes[i].voxels))]),
      Flatten([i \in 1..Len(meshes) |-> SplitInTwo(meshes[i])]) }

(* C23: two builders with the same voxel size, the same bounds and the     *)
(* same set of voxels build identical octrees (origin, layers with all     *)
(* links, leafs), whatever the order of the voxels, their split across     *)
(* meshes and their repetition                                             *)
C23_build_is_deterministic ==
    op = "build" =>
        \A ms \in SameVoxelsOtherwise :
            build(ms, min, max, voxel_size) = IF phase = "octree" THEN Some(tree) ELSE None

(* an octree built from a mesh with two voxels in one leaf *)
C23_witness ==
    /\ JustBuilt
    /\ \E i \in 1..Len(meshes) : \E j, k \in 1..Len(meshes[i].voxels) :
          /\ j < k
          /\ leaf_coords_of(voxels(meshes[i])[j], origin) = leaf_coords_of(voxels(meshes[i])[k], origin)
    /\ \A ms \in SameVoxelsOtherwise : ms # meshes

(* the size of the nodes of layer k, counted from 1 *)
NodeSizeOf(k) == Iterate(LAMBDA n : 2 * n, 4, k - 1)

(* C24: build never stops on 'not all children present': every layer that *)
(* create_next_layer was given is made of complete octets, eight nodes at  *)
(* the eight octant offsets in Morton order                                *)
C24_all_children_present ==
    op = "build" =>
        /\ phase = "octree"
        /\ \A k \in 1..(Len(layers) - 1) :
              validate_all_children_present(layers[k], NodeSizeOf(k))

(* an octree whose second layer was padded to complete octets *)
C24_witness ==
    /\ JustBuilt
    /\ Len(layers) >= 3
    /\ \E i \in 1..Len(layers[2]) : IsNone(layers[2][i].first_child)

(* C25: on every built octree the nodes of layer k, counted from 0, have   *)
(* size 4 * 2^k and positions that are multiples of it and pairwise        *)
(* distinct, and they stand in strictly increasing order of the Morton     *)
(* code of their position, the padding nodes included                      *)
C25_layers_are_well_formed ==
    JustBuilt =>
        \A k \in 1..Len(layers) :
            /\ \A i \in 1..Len(layers[k]) :
                  /\ layers[k][i].size = NodeSizeOf(k)
                  /\ \A c \in 1..3 : layers[k][i].position[c] % NodeSizeOf(k) = 0
            /\ \A i, j \in 1..Len(layers[k]) :
                  i < j => /\ layers[k][i].position # layers[k][j].position
                           /\ encode(layers[k][i].position) < encode(layers[k][j].position)

(* an octree with padding nodes in its second layer and a second octet in  *)
(* its first                                                               *)
C25_witness ==
    /\ JustBuilt
    /\ Len(layers) >= 3
    /\ Len(layers[1]) >= 16
    /\ \E i \in 1..Len(layers[2]) : IsNone(layers[2][i].first_child)

(* the face of the 4x4x4 cube a cell lies on: x = 3, z = 3, x = 0, z = 0,  *)
(* y = 3, y = 0 for the faces 0 to 5                                       *)
OnFace(p, f) ==
    CASE f = 0 -> p[1] = 3
      [] f = 1 -> p[3] = 3
      [] f = 2 -> p[1] = 0
      [] f = 3 -> p[3] = 0
      [] f = 4 -> p[2] = 3
      [] f = 5 -> p[2] = 0

(* C26: is_face(i, f), as successors uses it, is true exactly when subnode *)
(* i lies on face f of the 4x4x4 cube, its cell being the Morton decoding  *)
(* of i, which is also its entry of SUBNODE_POSITIONS; every mask has      *)
(* exactly 16 bits                                                         *)
C26_is_face_is_the_face_of_the_cube ==
    op = "successors" =>
        /\ \A i \in 0..63 : \A f \in 0..5 :
              /\ is_face(i, f) <=> OnFace(decode(i), f)
              /\ is_face(i, f) <=> OnFace(At(SUBNODE_POSITIONS, i), f)
        /\ \A f \in 0..5 : /\ At(FACE_POSITIONS, f) \subseteq 0..63
                             /\ Cardinality(At(FACE_POSITIONS, f)) = 16

(* successors of a free subnode that lies on the top or the bottom face    *)
(* and not on both                                                         *)
C26_witness ==
    /\ op = "successors"
    /\ IsSome(link)
    /\ IsSome(Unwrap(link).subnode_index)
    /\ \E i \in {Unwrap(Unwrap(link).subnode_index)} :
          /\ is_face(i, 4) # is_face(i, 5)
          /\ \E f \in 0..3 : ~is_face(i, f)

(* the boxes is_in_line_of_sight may test: for every node below the top    *)
(* layer the box from its position that is as wide as its parent, and the  *)
(* unit box of every occupied voxel                                        *)
BoxesTested ==
    UNION {{<<layers[k][i].position,
              VAdd(layers[k][i].position, <<2 * NodeSizeOf(k), 2 * NodeSizeOf(k), 2 * NodeSizeOf(k)>>)>> :
               i \in 1..Len(layers[k])} : k \in 1..(Len(layers) - 1)}
      \cup {<<v, VAdd(v, <<1, 1, 1>>)>> : v \in OffsetsOfVoxels}

InClosedBox(p, box) == \A c \in 1..3 : box[1][c] <= p[c] /\ p[c] <= box[2][c]

BeyondTheSamePlane(p, q, box) ==
    \E c \in 1..3 : \/ p[c] < box[1][c] /\ q[c] < box[1][c]
                    \/ p[c] > box[2][c] /\ q[c] > box[2][c]

Classified(p, q, box) ==
    IF InClosedBox(p, box) /\ InClosedBox(q, box) THEN "Inside"
    ELSE IF BeyondTheSamePlane(p, q, box) THEN "Outside"
    ELSE "Clip"

(* C27: cohen_sutherland answers Inside exactly when both endpoints lie in *)
(* the closed box, Outside exactly when both lie strictly beyond the same  *)
(* one of the six planes, Clip otherwise, and the same for the endpoints   *)
(* exchanged; checked for the segment and the boxes of a sight query       *)
C27_cohen_sutherland_classifies ==
    AskedForSight =>
        \A box \in BoxesTested :
            /\ cohen_sutherland(SegmentFrom, SegmentTo, box[1], box[2])
                  = Classified(SegmentFrom, SegmentTo, box)
            /\ cohen_sutherland(SegmentTo, SegmentFrom, box[1], box[2])
                  = cohen_sutherland(SegmentFrom, SegmentTo, box[1], box[2])

(* a sight query whose boxes get all three answers, with an endpoint on    *)
(* the upper face of a box it is inside of                                 *)
C27_witness ==
    /\ AskedForSight
    /\ SegmentFrom # SegmentTo
    /\ \A answer \in {"Inside", "Outside", "Clip"} : \E box \in BoxesTested :
          cohen_sutherland(SegmentFrom, SegmentTo, box[1], box[2]) = answer
    /\ \E box \in BoxesTested :
          /\ cohen_sutherland(SegmentFrom, SegmentTo, box[1], box[2]) = "Inside"
          /\ \E c \in 1..3 : SegmentFrom[c] = box[2][c] \/ SegmentTo[c] = box[2][c]

OctantOffset(o) == At(OFFSETS_IN_MORTON_CODE_ORDER, o)

(* octant o lies on face f of its parent *)
OctantOnFace(o, f) ==
    \A c \in 1..3 : /\ At(NEIGHBOR_POSITION_OFFSETS, f)[c] = 1 => OctantOffset(o)[c] = 1
                    /\ At(NEIGHBOR_POSITION_OFFSETS, f)[c] = -1 => OctantOffset(o)[c] = 0

(* the face-sharing pairs of octants, each once, from the lower octant *)
FaceSharingPairs ==
    {<<f, opposite(f), a, b>> : f \in {0, 1, 4}, a \in 0..7, b \in 0..7}
      \cap {e \in (0..5) \X (0..5) \X (0..7) \X (0..7) :
               OctantOffset(e[4]) = VAdd(OctantOffset(e[3]), At(NEIGHBOR_POSITION_OFFSETS, e[1]))}

SubnodeNeighborsRegenerated ==
    \A i \in 0..63 : \A f \in 0..5 :
        At(At(SUBNODE_NEIGHBORS, i), f)
          = encode([c \in 1..3 |-> (decode(i)[c] + At(NEIGHBOR_POSITION_OFFSETS, f)[c] + 4) % 4])

NeighborConnectionsRegenerated ==
    \A f \in 0..5 :
        LET own == At(NEIGHBOR_CONNECTIONS, f)[1]
            far == At(NEIGHBOR_CONNECTIONS, f)[2]
        IN  /\ Len(own) = 4 /\ Len(far) = 4
            /\ Range(own) = {o \in 0..7 : OctantOnFace(o, f)}
            /\ \A k \in 1..4 :
                  /\ OctantOnFace(far[k], opposite(f))
                  /\ OctantOffset(own[k]) = VAdd(OctantOffset(far[k]), At(NEIGHBOR_POSITION_OFFSETS, f))

SiblingConnectionsRegenerated ==
    /\ Len(SIBLING_CONNECTIONS) = 12
    /\ Range(SIBLING_CONNECTIONS) = FaceSharingPairs
    /\ Cardinality(FaceSharingPairs) = 12

(* the 16 subnodes of the neighbour across face f: those on its opposite face *)
NeighborSubnodesRegenerated ==
    \A f \in 0..5 :
        /\ Len(At(NEIGHBOR_SUBNODES, f)) = 16
        /\ \A k \in 1..16 : \E e \in {At(NEIGHBOR_SUBNODES, f)[k]} :
              /\ encode_xyz(e[1], e[2], e[3]) = e[4]
              /\ decode(e[4]) = <<e[1], e[2], e[3]>>
        /\ {At(NEIGHBOR_SUBNODES, f)[k][4] : k \in 1..16} = At(FACE_POSITIONS, opposite(f))

SubnodePositionsRegenerated ==
    /\ Len(SUBNODE_POSITIONS) = 64
    /\ \A i \in 0..63 : /\ At(SUBNODE_POSITIONS, i) = decode(i)
                         /\ encode(At(SUBNODE_POSITIONS, i)) = i

(* C28: the lookup tables the build and the queries use equal the tables   *)
(* regenerated from the Morton codec and the face order: SUBNODE_NEIGHBORS *)
(* by stepping one cell modulo 4, NEIGHBOR_CONNECTIONS by pairing the      *)
(* octants on a face with those across it, SIBLING_CONNECTIONS as the 12   *)
(* face-sharing pairs of octants, NEIGHBOR_SUBNODES and SUBNODE_POSITIONS  *)
(* by decoding                                                             *)
C28_tables_are_regenerated ==
    JustBuilt =>
        /\ SubnodeNeighborsRegenerated
        /\ NeighborConnectionsRegenerated
        /\ SiblingConnectionsRegenerated
        /\ NeighborSubnodesRegenerated
        /\ SubnodePositionsRegenerated

(* an octree whose build wired siblings and the children of neighbours *)
C28_witness ==
    /\ JustBuilt
    /\ Len(layers) >= 3
    /\ \E i \in 1..Len(layers[1]) : \E f, g \in 0..5 :
          /\ IsSome(At(layers[1][i].neighbors, f))
          /\ IsSome(At(layers[1][i].neighbors, g))
          /\ Unwrap(At(layers[1][i].neighbors, f)).layer_index = 0
          /\ Unwrap(At(layers[1][i].neighbors, f)).node_index \div 8 = (i - 1) \div 8
          /\ Unwrap(At(layers[1][i].neighbors, g)).node_index \div 8 # (i - 1) \div 8

(* C29: for every built octree and all free links A and B that find_node   *)
(* and successors lead to, if B is in successors(A) then A is in           *)
(* successors(B)                                                           *)
C29_successors_is_symmetric ==
    (Answered /\ FreeCell(Unwrap(link))) =>
        \A k \in 1..Len(result) :
            FreeCell(result[k]) => Unwrap(link) \in Range(successors(tree, result[k]))

(* B is a subnode of the leaf of the subnode A, A is the cell next to B    *)
(* through a face g, and the leaf has no neighbour on g                    *)
StepBackNeedsAMissingNeighbor(A, B) ==
    /\ IsSome(A.subnode_index) /\ IsSome(B.subnode_index)
    /\ A.layer_index = B.layer_index /\ A.node_index = B.node_index
    /\ \E g \in 0..5 :
          /\ ~is_face(Unwrap(B.subnode_index), g)
          /\ At(At(SUBNODE_NEIGHBORS, Unwrap(B.subnode_index)), g) = Unwrap(A.subnode_index)
          /\ IsNone(At(NodeAt(layers, B).neighbors, g))

(* for free links A and B with B in successors(A), A is in successors(B)   *)
(* except when both are subnodes of one leaf that has no neighbour on the  *)
(* face from B to A                                                        *)
C29_symmetric_but_for_steps_towards_the_boundary ==
    (Answered /\ FreeCell(Unwrap(link))) =>
        \A k \in 1..Len(result) :
            FreeCell(result[k]) =>
                (Unwrap(link) \in Range(successors(tree, result[k]))
                    <=> ~StepBackNeedsAMissingNeighbor(Unwrap(link), result[k]))

(* successors of a free subnode of an octree with a single root, after a   *)
(* step: one link of the answer leads back and another, in the same leaf,  *)
(* does not                                                                *)
C29_witness ==
    /\ Answered
    /\ FreeCell(Unwrap(link))
    /\ Len(TopLayer) = 1
    /\ \E j, k \in 1..Len(result) :
          /\ Unwrap(link) \in Range(successors(tree, result[j]))
          /\ StepBackNeedsAMissingNeighbor(Unwrap(link), result[k])

(* the side length of the root cube, as build computes it *)
RootCubeSize == get_origin_and_size(RegionOf(meshes)[1], RegionOf(meshes)[2])[2]

(* face f of the node lies on the boundary of the cube of the given size   *)
(* at the origin                                                           *)
FaceOnBoundary(nd, f, size) ==
    \E c \in 1..3 :
        \/ At(NEIGHBOR_POSITION_OFFSETS, f)[c] = 1 /\ nd.position[c] + nd.size = size
        \/ At(NEIGHBOR_POSITION_OFFSETS, f)[c] = -1 /\ nd.position[c] = 0

(* every node has a neighbour exactly on its faces inside the cube, and a  *)
(* neighbour of a coarser layer has no children                            *)
WiringIsComplete(size) ==
    \A l \in 0..(Len(layers) - 1) : \A n \in 0..(Len(At(layers, l)) - 1) : \A f \in 0..5 :
        \E nb \in {At(At(At(layers, l), n).neighbors, f)} :
            /\ IsNone(nb) <=> FaceOnBoundary(At(At(layers, l), n), f, size)
            /\ (IsSome(nb) /\ Unwrap(nb).layer_index > l) =>
                   IsNone(NodeAt(layers, Unwrap(nb)).first_child)

(* C30: on every built octree, for every node of every layer and every     *)
(* face f, neighbors[f] is absent exactly when face f of the node lies on  *)
(* the boundary of the root cube, and a neighbour link to a node of a      *)
(* coarser layer names a node without children                             *)
C30_neighbor_wiring_is_complete ==
    JustBuilt => WiringIsComplete(RootCubeSize)

====
